---- MODULE Spec2Model ----
(***************************************************************************)
(* The database browser of arangotui (src/src/main.rs): the view state     *)
(* machine of run_database_browser, the DatabaseBrowser it owns, the load_* *)
(* methods that fetch from the server, and find_selected_graph_item.       *)
(*                                                                         *)
(* Indices are 0-based as in the program; a Vec v is a sequence, and v[i]  *)
(* of the program is v[i + 1] here.  An Option is a sequence of length at  *)
(* most one.  One action models one arm of the key match of the event      *)
(* loop, from the key press to the `continue` / end of the loop body,      *)
(* awaited fetches included.                                               *)
(***************************************************************************)
EXTENDS Integers, Sequences, FiniteSets, TLC

VARIABLES
    view,                  \* browser.view: BrowserView
    database_stats,        \* browser.database_stats: Vec<DatabaseStats>
    selected_db_index,     \* browser.selected_db_index
    collections,           \* browser.collections: Vec<CollectionWithCount>
    selected_coll_index,   \* browser.selected_coll_index
    graphs,                \* browser.graphs: Vec<GraphInfo>
    selected_graph_index,  \* browser.selected_graph_index
    collection_details,    \* browser.collection_details: Option<CollectionCount>
    scroll_offset,         \* browser.scroll_offset
    accessible,            \* browser.accessible
    input_state,           \* browser.input_state: None or the buffer being typed
    documents,             \* browser.documents: Vec<Value>
    navigation_stack,      \* browser.navigation_stack: Vec<(BrowserView, usize)>
    graph_details,         \* browser.graph_details: Option<GraphInfo>
    session,               \* where run_database_browser is: "new", "running",
                           \* "quit" (returned Ok) or "failed" (returned Err)
    fetches,               \* history: the remote calls the last event made, in order
    event,                 \* history: the arm of the key match the last event took,
                           \* when the key was Enter, Esc, Backspace or 'v': the view
                           \* it was pressed in (or the input dialog) and the key
    dialog,                \* history: the modal's last session, until the next key
                           \* after it closed: what it was opened over, the digits
                           \* typed, how it was closed and the buffer it then held
    listed_db,             \* history: the database of the last load_collections that
                           \* returned Ok, or "" before the first
    pending,               \* the key presses the terminal holds for event::read()
    in_flight,             \* the remote calls sent and not yet answered
    task                   \* where run_database_browser is between two
                           \* event::read(): the load_* method it awaits

vars == <<view, database_stats, selected_db_index, collections, selected_coll_index,
          graphs, selected_graph_index, collection_details, scroll_offset, accessible,
          input_state, documents, navigation_stack, graph_details, session, fetches,
          event, dialog, listed_db, pending, in_flight, task>>

----------------------------------------------------------------------------
(* Bounds of the model. *)

\* The longest buffer the modal is given (String::push has no limit).
MaxInput == 4
\* The deepest navigation stack (Vec::push has no limit).
MaxStack == 1
\* The largest scroll offset (saturating_add stops only at usize::MAX).
MaxScroll == 10

----------------------------------------------------------------------------
(* Option, and the views. *)

None == <<>>
Some(x) == <<x>>

DatabaseList == [tag |-> "DatabaseList", db |-> "", name |-> ""]
CollectionList(db) == [tag |-> "CollectionList", db |-> db, name |-> ""]
GraphList(db) == [tag |-> "GraphList", db |-> db, name |-> ""]
CollectionProperties(db, coll) == [tag |-> "CollectionProperties", db |-> db, name |-> coll]
DocumentViewer(db, coll) == [tag |-> "DocumentViewer", db |-> db, name |-> coll]
GraphProperties(db, graph) == [tag |-> "GraphProperties", db |-> db, name |-> graph]

\* The most graphs, and the most edge definitions of a graph, of the graph
\* lists the selection indexer is checked on.
MaxGraphs == 3
MaxEdges == 2

----------------------------------------------------------------------------
(* What the server may answer.  A fetch either fails or returns one of    *)
(* these payloads; the choice is the server's at every call.               *)

\* get_databases: the names of the databases.
DatabaseListings == {<<>>, <<"a", "b", "c">>}

\* The collections a database may list: CollectionInfo, name and isSystem.
Likes == [name |-> "likes", is_system |-> FALSE]
User == [name |-> "user", is_system |-> FALSE]
Apps == [name |-> "_apps", is_system |-> TRUE]

\* get_collection_count: the CollectionCount payload of a collection.
CountPayload(coll) == [name |-> coll, count |-> 7]

\* The edge definitions a graph may hold ("to" is only displayed).
EdgeLikes == [collection |-> "likes", from |-> <<"user">>]
EdgeUser == [collection |-> "user", from |-> <<>>]

Graph(name, edges) == [name |-> name, edge_definitions |-> edges]

\* get_graphs: the graphs of a database.
GraphListings ==
    { <<>>,
      <<Graph("g1", <<EdgeLikes>>)>>,
      <<Graph("g1", <<EdgeLikes, EdgeUser>>), Graph("g2", <<>>)>> }

\* get_database_stats: the databases whose get_collections succeeds.
ReachableSets == {{"a", "b"}}

\* execute_aql_query: the documents a collection holds, of which the query
\* "FOR d IN c LIMIT n RETURN d" returns the first n.
StoredDocuments == <<"doc">>

\* The digit keys that are pressed.
DigitKeys == {"0", "1"}

----------------------------------------------------------------------------
(* Strings: str::cmp compares byte by byte.                               *)

Bytes(s) ==
    CASE s = "likes" -> <<108, 105, 107, 101, 115>>
      [] s = "user" -> <<117, 115, 101, 114>>
      [] s = "_apps" -> <<95, 97, 112, 112, 115>>
      [] s = "_graphs" -> <<95, 103, 114, 97, 112, 104, 115>>
      [] OTHER -> <<>>

RECURSIVE BytesLess(_, _)
BytesLess(s, t) ==
    IF t = <<>> THEN FALSE
    ELSE IF s = <<>> THEN TRUE
    ELSE IF Head(s) # Head(t) THEN Head(s) < Head(t)
    ELSE BytesLess(Tail(s), Tail(t))

\* a.cmp(b) == Ordering::Less
NameLess(a, b) == BytesLess(Bytes(a), Bytes(b))

----------------------------------------------------------------------------
(* The pure parts of the program.                                          *)

\* The comparator without its match on is_system: by name only.
CollLessByName(a, b) == NameLess(a.info.name, b.info.name)

\* The comparator of collections_with_count.sort_by: Ordering::Less.
CollLess(a, b) ==
    IF ~a.info.is_system /\ b.info.is_system THEN TRUE
    ELSE IF a.info.is_system /\ ~b.info.is_system THEN FALSE
    ELSE NameLess(a.info.name, b.info.name)

\* x put into the sorted s, behind the elements it is not less than.
RECURSIVE Insert(_, _)
Insert(s, x) ==
    IF s = <<>> THEN <<x>>
    ELSE IF CollLess(x, Head(s)) THEN <<x>> \o s
    ELSE <<Head(s)>> \o Insert(Tail(s), x)

\* Vec::sort_by with CollLess: a stable sort.
RECURSIVE SortCollections(_)
SortCollections(s) ==
    IF s = <<>> THEN <<>>
    ELSE Insert(SortCollections(SubSeq(s, 1, Len(s) - 1)), s[Len(s)])

\* collections.iter().position(|c| c.info.name == name)
RECURSIVE PositionFrom(_, _, _)
PositionFrom(colls, name, i) ==
    IF i >= Len(colls) THEN None
    ELSE IF colls[i + 1].info.name = name THEN Some(i)
    ELSE PositionFrom(colls, name, i + 1)

Position(colls, name) == PositionFrom(colls, name, 0)

\* graphs.first().cloned() in place of the find by name.
FindGraphFirst(gs, graph_name) == IF gs = <<>> THEN None ELSE Some(gs[1])

\* graphs.iter().find(|g| g.name == graph_name).cloned()
RECURSIVE FindGraphFrom(_, _, _)
FindGraphFrom(gs, graph_name, i) ==
    IF i >= Len(gs) THEN None
    ELSE IF gs[i + 1].name = graph_name THEN Some(gs[i + 1])
    ELSE FindGraphFrom(gs, graph_name, i + 1)

FindGraph(gs, graph_name) == FindGraphFrom(gs, graph_name, 0)

\* total_rows of the Up and Down arms of GraphList.
RECURSIVE RowsOfGraphs(_)
RowsOfGraphs(gs) ==
    IF gs = <<>> THEN 0
    ELSE 1 + Len(Head(gs).edge_definitions) + RowsOfGraphs(Tail(gs))

SaturatingSub(a, b) == IF a < b THEN 0 ELSE a - b

\* total_rows without `total_rows += browser.graphs.len().saturating_sub(1)`.
TotalRowsWithoutSpacers(gs) == RowsOfGraphs(gs)

TotalRows(gs) == RowsOfGraphs(gs) + SaturatingSub(Len(gs), 1)

\* The inner loop of find_selected_graph_item: the rows of the edge
\* definitions of graph graph_idx, from edge_idx on, current_row being the
\* row of edge_idx.  Returns the item found, or the row after the last.
RECURSIVE ScanEdges(_, _, _, _, _)
ScanEdges(gs, selected, graph_idx, edge_idx, current_row) ==
    IF edge_idx >= Len(gs[graph_idx + 1].edge_definitions)
    THEN [found |-> None, current_row |-> current_row]
    ELSE IF current_row = selected
    THEN [found |-> Some([graph_idx |-> graph_idx, edge_idx |-> Some(edge_idx)]),
          current_row |-> current_row]
    ELSE ScanEdges(gs, selected, graph_idx, edge_idx + 1, current_row + 1)

\* The outer loop without its "Skip spacing row".
RECURSIVE ScanGraphsNoSpacer(_, _, _, _)
ScanGraphsNoSpacer(gs, selected, graph_idx, current_row) ==
    IF graph_idx >= Len(gs) THEN None
    ELSE IF current_row = selected
    THEN Some([graph_idx |-> graph_idx, edge_idx |-> None])
    ELSE LET edges == ScanEdges(gs, selected, graph_idx, 0, current_row + 1)
         IN  IF edges.found # None THEN edges.found
             ELSE ScanGraphsNoSpacer(gs, selected, graph_idx + 1, edges.current_row)

\* The outer loop of find_selected_graph_item.
RECURSIVE ScanGraphs(_, _, _, _)
ScanGraphs(gs, selected, graph_idx, current_row) ==
    IF graph_idx >= Len(gs) THEN None
    ELSE IF current_row = selected
    THEN Some([graph_idx |-> graph_idx, edge_idx |-> None])
    ELSE LET edges == ScanEdges(gs, selected, graph_idx, 0, current_row + 1)
         IN  IF edges.found # None THEN edges.found
             ELSE ScanGraphs(gs, selected, graph_idx + 1,
                             IF graph_idx < Len(gs) - 1
                             THEN edges.current_row + 1
                             ELSE edges.current_row)

\* find_selected_graph_item falling back to the first graph where it finds
\* no item.
FindSelectedGraphItemOrFirst(gs, selected) ==
    IF ScanGraphs(gs, selected, 0, 0) = None /\ gs # <<>>
    THEN Some([graph_idx |-> 0, edge_idx |-> None])
    ELSE ScanGraphs(gs, selected, 0, 0)

\* find_selected_graph_item: Option<(usize, Option<usize>)>
FindSelectedGraphItem(gs, selected) == ScanGraphs(gs, selected, 0, 0)

\* The Down arms without their `% n`.
WrapNextUnbounded(i, n) == i + 1

\* (i + 1) % n of the Down arms.
WrapNext(i, n) == (i + 1) % n

\* if i == 0 { n - 1 } else { i - 1 } of the Up arms.
WrapPrev(i, n) == IF i = 0 THEN n - 1 ELSE i - 1

\* char::to_digit of an ASCII digit.
DigitValue(c) ==
    CASE c = "0" -> 0 [] c = "1" -> 1 [] c = "2" -> 2 [] c = "3" -> 3
      [] c = "4" -> 4 [] c = "5" -> 5 [] c = "6" -> 6 [] c = "7" -> 7
      [] c = "8" -> 8 [] c = "9" -> 9

RECURSIVE DecimalValue(_)
DecimalValue(buf) ==
    IF buf = <<>> THEN 0
    ELSE 10 * DecimalValue(SubSeq(buf, 1, Len(buf) - 1)) + DigitValue(buf[Len(buf)])

\* input.parse::<usize>(): an empty string does not parse.  The buffer holds
\* digits only, and at most MaxInput of them: too few to overflow a usize.
ParseUsize(buf) == IF buf = <<>> THEN None ELSE Some(DecimalValue(buf))

\* input.parse().unwrap_or(0)
ParseCountOrZero(buf) == IF ParseUsize(buf) = None THEN 0 ELSE ParseUsize(buf)[1]

\* input.parse().unwrap_or(10)
ParseCount(buf) == IF ParseUsize(buf) = None THEN 10 ELSE ParseUsize(buf)[1]

----------------------------------------------------------------------------
(* The fetches.  An outcome is what the server does with the calls of one  *)
(* load_* method; a call of the history is the gateway function, its       *)
(* database, its collection (or ""), the LIMIT of its query (or None) and  *)
(* whether it returned Ok.                                                 *)

Call(op, db, coll, limit, ok) ==
    [op |-> op, db |-> db, coll |-> coll, limit |-> limit, ok |-> ok]

\* The names in a listing.
NamesOf(listing) == {listing[i].name : i \in 1..Len(listing)}

\* load_collections: get_collections fails, or lists the collections, and
\* then the get_collection_count of each of count_fails fails.
CollectionOutcomes ==
    { [ok |-> FALSE, listing |-> <<>>, count_fails |-> {}],
      [ok |-> TRUE, listing |-> <<>>, count_fails |-> {}],
      [ok |-> TRUE, listing |-> <<User>>, count_fails |-> {}],
      [ok |-> TRUE, listing |-> <<User, Likes>>, count_fails |-> {"user"}],
      [ok |-> TRUE, listing |-> <<Apps, User, Likes>>, count_fails |-> {}] }

\* load_collections listing the collections once more before it counts them.
CollectionCallsRelisted(database, o) ==
    <<Call("get_collections", database, "", None, o.ok),
      Call("get_collections", database, "", None, o.ok)>>
    \o [i \in 1..Len(o.listing) |->
          Call("get_collection_count", database, o.listing[i].name, None,
               o.listing[i].name \notin o.count_fails)]

\* The calls of load_collections(database): one listing, then one count a
\* collection, in the order listed.
CollectionCalls(database, o) ==
    <<Call("get_collections", database, "", None, o.ok)>>
    \o [i \in 1..Len(o.listing) |->
          Call("get_collection_count", database, o.listing[i].name, None,
               o.listing[i].name \notin o.count_fails)]

\* load_collections leaving out the collections whose count failed.
LoadedCollectionsCounted(o) ==
    SortCollections(
        SelectSeq([i \in 1..Len(o.listing) |->
                     [info |-> o.listing[i],
                      count |-> IF o.listing[i].name \in o.count_fails
                                THEN None
                                ELSE Some(CountPayload(o.listing[i].name).count)]],
                  LAMBDA c : c.count # None))

\* collections_with_count of load_collections, sorted: what it assigns to
\* self.collections.
LoadedCollections(o) ==
    SortCollections(
        [i \in 1..Len(o.listing) |->
            [info |-> o.listing[i],
             count |-> IF o.listing[i].name \in o.count_fails
                       THEN None
                       ELSE Some(CountPayload(o.listing[i].name).count)]])

\* load_databases: get_databases fails, or lists the databases, and then
\* get_database_stats finds each one accessible (its get_collections
\* succeeds) or not.
DatabaseOutcomes ==
    {[ok |-> FALSE, names |-> <<>>, reachable |-> {}]}
    \cup {[ok |-> TRUE, names |-> l, reachable |-> r] :
            l \in DatabaseListings, r \in ReachableSets }

DatabaseCalls(o) ==
    <<Call("get_databases", "", "", None, o.ok)>>
    \o [i \in 1..Len(o.names) |->
          Call("get_collections", o.names[i], "", None, o.names[i] \in o.reachable)]

\* stats of load_databases: one DatabaseStats a database (its three counters
\* are only displayed).
LoadedDatabases(o) ==
    [i \in 1..Len(o.names) |->
        [name |-> o.names[i], accessible |-> o.names[i] \in o.reachable]]

\* load_graphs: get_graphs fails or lists the graphs.
GraphOutcomes ==
    {[ok |-> FALSE, graphs |-> <<>>]}
    \cup {[ok |-> TRUE, graphs |-> g] : g \in GraphListings}

\* The call of load_graphs(database), with the graphs it returned.
GraphCalls(database, o) ==
    <<[op |-> "get_graphs", db |-> database, coll |-> "", limit |-> None, ok |-> o.ok,
       graphs |-> o.graphs]>>

\* load_collection_details: get_collection_count fails or returns the payload.
DetailOutcomes(coll) ==
    {[ok |-> FALSE, details |-> None], [ok |-> TRUE, details |-> Some(CountPayload(coll))]}

\* load_documents: the query fails or returns the first `count` documents.
DocumentOutcomes(count) ==
    {[ok |-> FALSE, documents |-> <<>>],
     [ok |-> TRUE,
      documents |-> IF count < Len(StoredDocuments)
                    THEN SubSeq(StoredDocuments, 1, count)
                    ELSE StoredDocuments]}

----------------------------------------------------------------------------
(* The browser.                                                            *)

\* The fields of DatabaseBrowser.
browser == <<view, database_stats, selected_db_index, collections, selected_coll_index,
             graphs, selected_graph_index, collection_details, scroll_offset,
             accessible, input_state, documents, navigation_stack, graph_details>>

\* What the modal is opened over: every field but input_state.
Snapshot ==
    [view |-> view, database_stats |-> database_stats,
     selected_db_index |-> selected_db_index, collections |-> collections,
     selected_coll_index |-> selected_coll_index, graphs |-> graphs,
     selected_graph_index |-> selected_graph_index,
     collection_details |-> collection_details, scroll_offset |-> scroll_offset,
     accessible |-> accessible, documents |-> documents,
     navigation_stack |-> navigation_stack, graph_details |-> graph_details]

\* The history of the last event: the arm `arm` of the key match was taken
\* by the key `key`; AnyKey is a key whose arm is not recorded.
NoEvent == [arm |-> "", key |-> ""]

\* The history of the collections: a load_collections that returns Ok (its
\* get_collections did) is the first call of its event.
Listed ==
    listed_db' = IF /\ fetches' # <<>>
                    /\ fetches'[1].op = "get_collections"
                    /\ fetches'[1].ok
                 THEN fetches'[1].db
                 ELSE listed_db

\* The event loop: run_database_browser at event::read(), no key held back
\* and no call in flight.
loop == <<pending, in_flight, task>>
AtRead == [at |-> "event::read", arm |-> "", target |-> "", prev |-> None,
           outcome |-> None, k |-> 0]

\* An arm taken from event::read() to the next event::read() in one step.
Pressed(arm, key) == event' = [arm |-> arm, key |-> key] /\ Listed /\ UNCHANGED loop
AnyKey == event' = NoEvent /\ Listed /\ UNCHANGED loop

\* DatabaseBrowser::new(), before run_database_browser calls load_databases.
Init ==
    /\ view = DatabaseList
    /\ database_stats = <<>>
    /\ selected_db_index = 0
    /\ collections = <<>>
    /\ selected_coll_index = 0
    /\ graphs = <<>>
    /\ selected_graph_index = 0
    /\ collection_details = None
    /\ scroll_offset = 0
    /\ accessible = TRUE
    /\ input_state = None
    /\ documents = <<>>
    /\ navigation_stack = <<>>
    /\ graph_details = None
    /\ session = "new"
    /\ fetches = <<>>
    /\ event = NoEvent
    /\ dialog = None
    /\ listed_db = ""
    /\ pending = 0
    /\ in_flight = {}
    /\ task = AtRead

\* The event loop waits for a key and no modal is open.
InView(tag) == session = "running" /\ input_state = None /\ view.tag = tag

\* The modal is open and the event loop waits for a key.
InModal == session = "running" /\ input_state # None

\* An event outside the modal makes the calls `calls`.
Fetched(calls) == fetches' = calls /\ dialog' = None

\* An arm that does nothing (`_ => {}`, or a condition that does not hold).
Nothing == Fetched(<<>>) /\ UNCHANGED <<browser, session>>

\* `?` on an Err: run_database_browser returns it, app_loop and run_app
\* return it, main exits with it.
Propagate == session' = "failed"

\* load_databases returning the Err of get_databases, as the other load_*
\* methods do.
LoadDatabasesPropagates ==
    /\ session = "new"
    /\ \E o \in DatabaseOutcomes :
         /\ Fetched(DatabaseCalls(o))
         /\ IF o.ok
            THEN /\ accessible' = TRUE
                 /\ database_stats' = LoadedDatabases(o)
                 /\ selected_db_index' = 0
                 /\ session' = "running"
            ELSE /\ Propagate
                 /\ UNCHANGED <<accessible, database_stats, selected_db_index>>
    /\ UNCHANGED <<view, collections, selected_coll_index, graphs, selected_graph_index,
                   collection_details, scroll_offset, input_state, documents,
                   navigation_stack, graph_details>>

\* browser.load_databases(app_state).await? of run_database_browser.
LoadDatabases ==
    /\ session = "new"
    /\ \E o \in DatabaseOutcomes :
         /\ Fetched(DatabaseCalls(o))
         /\ IF o.ok
            THEN /\ accessible' = TRUE
                 /\ database_stats' = LoadedDatabases(o)
                 /\ selected_db_index' = 0
            ELSE /\ accessible' = FALSE
                 /\ UNCHANGED <<database_stats, selected_db_index>>
    /\ session' = "running"
    /\ UNCHANGED <<view, collections, selected_coll_index, graphs, selected_graph_index,
                   collection_details, scroll_offset, input_state, documents,
                   navigation_stack, graph_details>>

----------------------------------------------------------------------------
(* BrowserView::DatabaseList                                               *)

\* 'q' | Esc falling through to `_ => {}`: the loop goes on.
DatabaseListQuitIgnored == InView("DatabaseList") /\ Nothing

\* 'q' | Esc
DatabaseListQuit ==
    /\ InView("DatabaseList")
    /\ session' = "quit"
    /\ Fetched(<<>>)
    /\ UNCHANGED <<browser>>

\* Down | 'j'
DatabaseListDown ==
    /\ InView("DatabaseList")
    /\ IF database_stats # <<>>
       THEN /\ selected_db_index' = WrapNext(selected_db_index, Len(database_stats))
            /\ Fetched(<<>>)
            /\ UNCHANGED <<view, database_stats, collections, selected_coll_index, graphs,
                           selected_graph_index, collection_details, scroll_offset,
                           accessible, input_state, documents, navigation_stack,
                           graph_details, session>>
       ELSE Nothing

\* Up | 'k'
DatabaseListUp ==
    /\ InView("DatabaseList")
    /\ IF database_stats # <<>>
       THEN /\ selected_db_index' = WrapPrev(selected_db_index, Len(database_stats))
            /\ Fetched(<<>>)
            /\ UNCHANGED <<view, database_stats, collections, selected_coll_index, graphs,
                           selected_graph_index, collection_details, scroll_offset,
                           accessible, input_state, documents, navigation_stack,
                           graph_details, session>>
       ELSE Nothing

\* Enter without the test of `accessible`.
DatabaseListEnterUnchecked ==
    /\ InView("DatabaseList")
    /\ IF selected_db_index < Len(database_stats)
       THEN LET db_name == database_stats[selected_db_index + 1].name
            IN  \E o \in CollectionOutcomes :
                  /\ Fetched(CollectionCalls(db_name, o))
                  /\ IF o.ok
                     THEN /\ collections' = LoadedCollections(o)
                          /\ selected_coll_index' = 0
                          /\ scroll_offset' = 0
                          /\ view' = CollectionList(db_name)
                          /\ UNCHANGED session
                     ELSE /\ Propagate
                          /\ UNCHANGED <<collections, selected_coll_index, scroll_offset,
                                         view>>
                  /\ UNCHANGED <<database_stats, selected_db_index, graphs,
                                 selected_graph_index, collection_details, accessible,
                                 input_state, documents, navigation_stack, graph_details>>
       ELSE Nothing

\* Enter, the server answering load_collections with one of `outcomes`.
EnterDatabase(outcomes) ==
    /\ InView("DatabaseList")
    /\ IF /\ selected_db_index < Len(database_stats)
          /\ database_stats[selected_db_index + 1].accessible
       THEN LET db_name == database_stats[selected_db_index + 1].name
            IN  \E o \in outcomes :
                  /\ Fetched(CollectionCalls(db_name, o))
                  /\ IF o.ok
                     THEN /\ collections' = LoadedCollections(o)
                          /\ selected_coll_index' = 0
                          /\ scroll_offset' = 0
                          /\ view' = CollectionList(db_name)
                          /\ UNCHANGED session
                     ELSE /\ Propagate
                          /\ UNCHANGED <<collections, selected_coll_index, scroll_offset,
                                         view>>
                  /\ UNCHANGED <<database_stats, selected_db_index, graphs,
                                 selected_graph_index, collection_details, accessible,
                                 input_state, documents, navigation_stack, graph_details>>
       ELSE Nothing

\* Enter
DatabaseListEnter == EnterDatabase(CollectionOutcomes)

\* _ => {}
DatabaseListOther == InView("DatabaseList") /\ Nothing

----------------------------------------------------------------------------
(* BrowserView::CollectionList(db)                                         *)

\* 'q' | Esc, with the navigation stack cleared as the collections are.
CollectionListQuitClearsStack ==
    /\ InView("CollectionList")
    /\ view' = DatabaseList
    /\ collections' = <<>>
    /\ navigation_stack' = <<>>
    /\ Fetched(<<>>)
    /\ UNCHANGED <<database_stats, selected_db_index, selected_coll_index, graphs,
                   selected_graph_index, collection_details, scroll_offset, accessible,
                   input_state, documents, graph_details, session>>

\* 'q' | Esc
CollectionListQuit ==
    /\ InView("CollectionList")
    /\ view' = DatabaseList
    /\ collections' = <<>>
    /\ Fetched(<<>>)
    /\ UNCHANGED <<database_stats, selected_db_index, selected_coll_index, graphs,
                   selected_graph_index, collection_details, scroll_offset, accessible,
                   input_state, documents, navigation_stack, graph_details, session>>

\* Backspace restoring the popped view over the graphs still loaded, without
\* load_graphs.
CollectionListBackspaceStale ==
    /\ InView("CollectionList")
    /\ IF navigation_stack # <<>>
       THEN /\ navigation_stack' = SubSeq(navigation_stack, 1, Len(navigation_stack) - 1)
            /\ view' = navigation_stack[Len(navigation_stack)][1]
            /\ selected_graph_index' = navigation_stack[Len(navigation_stack)][2]
            /\ Fetched(<<>>)
            /\ UNCHANGED <<database_stats, selected_db_index, collections,
                           selected_coll_index, graphs, collection_details,
                           scroll_offset, accessible, input_state, documents,
                           graph_details, session>>
       ELSE Nothing

\* Backspace with an `else` that closes the view as 'q' | Esc does.
CollectionListBackspaceOrClose ==
    /\ InView("CollectionList")
    /\ IF navigation_stack # <<>>
       THEN LET prev_view == navigation_stack[Len(navigation_stack)][1]
                prev_index == navigation_stack[Len(navigation_stack)][2]
            IN  /\ navigation_stack' = SubSeq(navigation_stack, 1, Len(navigation_stack) - 1)
                /\ \E o \in GraphOutcomes :
                     /\ Fetched(GraphCalls(prev_view.db, o))
                     /\ IF o.ok
                        THEN /\ graphs' = o.graphs
                             /\ scroll_offset' = 0
                             /\ selected_graph_index' = prev_index
                             /\ view' = prev_view
                             /\ UNCHANGED session
                        ELSE /\ Propagate
                             /\ UNCHANGED <<graphs, scroll_offset, selected_graph_index,
                                            view>>
                /\ UNCHANGED collections
       ELSE /\ view' = DatabaseList
            /\ collections' = <<>>
            /\ Fetched(<<>>)
            /\ UNCHANGED <<navigation_stack, graphs, scroll_offset, selected_graph_index,
                           session>>
    /\ UNCHANGED <<database_stats, selected_db_index, selected_coll_index,
                   collection_details, accessible, input_state, documents, graph_details>>

\* Backspace
CollectionListBackspace ==
    /\ InView("CollectionList")
    /\ IF navigation_stack # <<>>
       THEN LET prev_view == navigation_stack[Len(navigation_stack)][1]
                prev_index == navigation_stack[Len(navigation_stack)][2]
            IN  /\ navigation_stack' = SubSeq(navigation_stack, 1, Len(navigation_stack) - 1)
                /\ IF prev_view.tag = "GraphList"
                   THEN \E o \in GraphOutcomes :
                          /\ Fetched(GraphCalls(prev_view.db, o))
                          /\ IF o.ok
                             THEN /\ graphs' = o.graphs
                                  /\ scroll_offset' = 0
                                  /\ selected_graph_index' = prev_index
                                  /\ view' = prev_view
                                  /\ UNCHANGED session
                             ELSE /\ Propagate
                                  /\ UNCHANGED <<graphs, scroll_offset,
                                                 selected_graph_index, view>>
                   ELSE /\ view' = prev_view
                        /\ Fetched(<<>>)
                        /\ UNCHANGED <<graphs, scroll_offset, selected_graph_index, session>>
                /\ UNCHANGED <<database_stats, selected_db_index, collections,
                               selected_coll_index, collection_details, accessible,
                               input_state, documents, graph_details>>
       ELSE Nothing

\* 'g' | 'G'
CollectionListGraphs ==
    /\ InView("CollectionList")
    /\ \E o \in GraphOutcomes :
         /\ Fetched(GraphCalls(view.db, o))
         /\ IF o.ok
            THEN /\ graphs' = o.graphs
                 /\ selected_graph_index' = 0
                 /\ scroll_offset' = 0
                 /\ view' = GraphList(view.db)
                 /\ UNCHANGED session
            ELSE /\ Propagate
                 /\ UNCHANGED <<graphs, selected_graph_index, scroll_offset, view>>
    /\ UNCHANGED <<database_stats, selected_db_index, collections, selected_coll_index,
                   collection_details, accessible, input_state, documents,
                   navigation_stack, graph_details>>

\* ' ' opening the modal on an empty buffer: String::new().
CollectionListSpaceEmpty ==
    /\ InView("CollectionList")
    /\ input_state' = Some(<<>>)
    /\ fetches' = <<>>
    /\ dialog' = Some([opened_from |-> Snapshot, typed |-> Some(<<>>), closed |-> "",
                       input |-> <<>>])
    /\ UNCHANGED <<view, database_stats, selected_db_index, collections,
                   selected_coll_index, graphs, selected_graph_index, collection_details,
                   scroll_offset, accessible, documents, navigation_stack, graph_details,
                   session>>

\* ' ' opening the modal and moving the cursor to the first collection.
CollectionListSpaceResetsCursor ==
    /\ InView("CollectionList")
    /\ input_state' = Some(<<"1", "0">>)
    /\ selected_coll_index' = 0
    /\ fetches' = <<>>
    /\ dialog' = Some([opened_from |-> Snapshot, typed |-> Some(<<>>), closed |-> "",
                       input |-> <<>>])
    /\ UNCHANGED <<view, database_stats, selected_db_index, collections, graphs,
                   selected_graph_index, collection_details, scroll_offset, accessible,
                   documents, navigation_stack, graph_details, session>>

\* ' ': InputState::EnteringDocumentCount("10".to_string())
CollectionListSpace ==
    /\ InView("CollectionList")
    /\ input_state' = Some(<<"1", "0">>)
    /\ fetches' = <<>>
    /\ dialog' = Some([opened_from |-> Snapshot, typed |-> Some(<<>>), closed |-> "",
                       input |-> <<>>])
    /\ UNCHANGED <<view, database_stats, selected_db_index, collections,
                   selected_coll_index, graphs, selected_graph_index, collection_details,
                   scroll_offset, accessible, documents, navigation_stack, graph_details,
                   session>>

\* Down | 'j'
CollectionListDown ==
    /\ InView("CollectionList")
    /\ IF collections # <<>>
       THEN /\ selected_coll_index' = WrapNext(selected_coll_index, Len(collections))
            /\ Fetched(<<>>)
            /\ UNCHANGED <<view, database_stats, selected_db_index, collections, graphs,
                           selected_graph_index, collection_details, scroll_offset,
                           accessible, input_state, documents, navigation_stack,
                           graph_details, session>>
       ELSE Nothing

\* Up | 'k'
CollectionListUp ==
    /\ InView("CollectionList")
    /\ IF collections # <<>>
       THEN /\ selected_coll_index' = WrapPrev(selected_coll_index, Len(collections))
            /\ Fetched(<<>>)
            /\ UNCHANGED <<view, database_stats, selected_db_index, collections, graphs,
                           selected_graph_index, collection_details, scroll_offset,
                           accessible, input_state, documents, navigation_stack,
                           graph_details, session>>
       ELSE Nothing

\* Enter
CollectionListEnter ==
    /\ InView("CollectionList")
    /\ IF selected_coll_index < Len(collections)
       THEN LET coll_name == collections[selected_coll_index + 1].info.name
            IN  \E o \in DetailOutcomes(coll_name) :
                  /\ Fetched(<<Call("get_collection_count", view.db, coll_name, None, o.ok)>>)
                  /\ IF o.ok
                     THEN /\ collection_details' = o.details
                          /\ scroll_offset' = 0
                          /\ view' = CollectionProperties(view.db, coll_name)
                          /\ UNCHANGED session
                     ELSE /\ Propagate
                          /\ UNCHANGED <<collection_details, scroll_offset, view>>
                  /\ UNCHANGED <<database_stats, selected_db_index, collections,
                                 selected_coll_index, graphs, selected_graph_index,
                                 accessible, input_state, documents, navigation_stack,
                                 graph_details>>
       ELSE Nothing

\* _ => {}
CollectionListOther == InView("CollectionList") /\ Nothing

---------------------------------------------------------------------------------------------------------------------------------------------------
(* InputState::EnteringDocumentCount(input): handled before the view, and  *)
(* followed by `continue`.                                                 *)

\* The history of the modal after a key that leaves it open: the digits
\* typed since it opened, or None once another key was pressed.
Typed(keys) == Some([dialog[1] EXCEPT !.typed = keys])

\* The history of the modal after the key that closes it; `input` is the
\* buffer that was confirmed.
Closed(key) ==
    Some([dialog[1] EXCEPT !.closed = key,
                           !.input = IF key = "Enter" THEN input_state[1] ELSE <<>>])

\* Char(c) if c.is_ascii_digit(): input.push(c)
ModalDigit ==
    /\ InModal
    /\ Len(input_state[1]) < MaxInput
    /\ \E c \in DigitKeys :
         /\ input_state' = Some(Append(input_state[1], c))
         /\ dialog' = Typed(IF dialog[1].typed = None THEN None
                            ELSE Some(Append(dialog[1].typed[1], c)))
    /\ fetches' = <<>>
    /\ UNCHANGED <<view, database_stats, selected_db_index, collections,
                   selected_coll_index, graphs, selected_graph_index, collection_details,
                   scroll_offset, accessible, documents, navigation_stack, graph_details,
                   session>>

\* Backspace: input.pop()
ModalBackspace ==
    /\ InModal
    /\ input_state' = IF input_state[1] = <<>>
                      THEN input_state
                      ELSE Some(SubSeq(input_state[1], 1, Len(input_state[1]) - 1))
    /\ dialog' = Typed(None)
    /\ fetches' = <<>>
    /\ UNCHANGED <<view, database_stats, selected_db_index, collections,
                   selected_coll_index, graphs, selected_graph_index, collection_details,
                   scroll_offset, accessible, documents, navigation_stack, graph_details,
                   session>>

\* Enter sampling the first collection of the list, wherever the cursor is.
ModalEnterFirstCollection ==
    /\ InModal
    /\ input_state' = None
    /\ dialog' = Closed("Enter")
    /\ LET count == ParseCount(input_state[1])
       IN  IF view.tag = "CollectionList" /\ selected_coll_index < Len(collections)
           THEN LET coll_name == collections[1].info.name
                IN  \E o \in DocumentOutcomes(count) :
                      /\ fetches' = <<Call("execute_aql_query", view.db, coll_name,
                                          Some(count), o.ok)>>
                      /\ IF o.ok
                         THEN /\ documents' = o.documents
                              /\ scroll_offset' = 0
                              /\ view' = DocumentViewer(view.db, coll_name)
                              /\ UNCHANGED session
                         ELSE /\ Propagate
                              /\ UNCHANGED <<documents, scroll_offset, view>>
           ELSE /\ fetches' = <<>>
                /\ UNCHANGED <<documents, scroll_offset, view, session>>
    /\ UNCHANGED <<database_stats, selected_db_index, collections, selected_coll_index,
                   graphs, selected_graph_index, collection_details, accessible,
                   navigation_stack, graph_details>>

\* Enter without `browser.input_state = InputState::None`.
ModalEnterStaysOpen ==
    /\ InModal
    /\ input_state' = input_state
    /\ dialog' = Closed("Enter")
    /\ LET count == ParseCount(input_state[1])
       IN  IF view.tag = "CollectionList" /\ selected_coll_index < Len(collections)
           THEN LET coll_name == collections[selected_coll_index + 1].info.name
                IN  \E o \in DocumentOutcomes(count) :
                      /\ fetches' = <<Call("execute_aql_query", view.db, coll_name,
                                          Some(count), o.ok)>>
                      /\ IF o.ok
                         THEN /\ documents' = o.documents
                              /\ scroll_offset' = 0
                              /\ view' = DocumentViewer(view.db, coll_name)
                              /\ UNCHANGED session
                         ELSE /\ Propagate
                              /\ UNCHANGED <<documents, scroll_offset, view>>
           ELSE /\ fetches' = <<>>
                /\ UNCHANGED <<documents, scroll_offset, view, session>>
    /\ UNCHANGED <<database_stats, selected_db_index, collections, selected_coll_index,
                   graphs, selected_graph_index, collection_details, accessible,
                   navigation_stack, graph_details>>

\* Enter leaving CollectionList for DatabaseList when no collection is
\* under the cursor.
ModalEnterEmptyCloses ==
    /\ InModal
    /\ input_state' = None
    /\ dialog' = Closed("Enter")
    /\ LET count == ParseCount(input_state[1])
       IN  IF view.tag = "CollectionList" /\ selected_coll_index < Len(collections)
           THEN LET coll_name == collections[selected_coll_index + 1].info.name
                IN  \E o \in DocumentOutcomes(count) :
                      /\ fetches' = <<Call("execute_aql_query", view.db, coll_name,
                                          Some(count), o.ok)>>
                      /\ IF o.ok
                         THEN /\ documents' = o.documents
                              /\ scroll_offset' = 0
                              /\ view' = DocumentViewer(view.db, coll_name)
                              /\ UNCHANGED session
                         ELSE /\ Propagate
                              /\ UNCHANGED <<documents, scroll_offset, view>>
           ELSE /\ fetches' = <<>>
                /\ view' = DatabaseList
                /\ UNCHANGED <<documents, scroll_offset, session>>
    /\ UNCHANGED <<database_stats, selected_db_index, collections, selected_coll_index,
                   graphs, selected_graph_index, collection_details, accessible,
                   navigation_stack, graph_details>>

\* Enter
ModalEnter ==
    /\ InModal
    /\ input_state' = None
    /\ dialog' = Closed("Enter")
    /\ LET count == ParseCount(input_state[1])
       IN  IF view.tag = "CollectionList" /\ selected_coll_index < Len(collections)
           THEN LET coll_name == collections[selected_coll_index + 1].info.name
                IN  \E o \in DocumentOutcomes(count) :
                      /\ fetches' = <<Call("execute_aql_query", view.db, coll_name,
                                          Some(count), o.ok)>>
                      /\ IF o.ok
                         THEN /\ documents' = o.documents
                              /\ scroll_offset' = 0
                              /\ view' = DocumentViewer(view.db, coll_name)
                              /\ UNCHANGED session
                         ELSE /\ Propagate
                              /\ UNCHANGED <<documents, scroll_offset, view>>
           ELSE /\ fetches' = <<>>
                /\ UNCHANGED <<documents, scroll_offset, view, session>>
    /\ UNCHANGED <<database_stats, selected_db_index, collections, selected_coll_index,
                   graphs, selected_graph_index, collection_details, accessible,
                   navigation_stack, graph_details>>

\* Esc without the `continue`: the key closes the modal and then reaches the
\* 'q' | Esc arm of CollectionList.
ModalEscReachesView ==
    /\ InModal
    /\ input_state' = None
    /\ dialog' = Closed("Esc")
    /\ fetches' = <<>>
    /\ view' = DatabaseList
    /\ collections' = <<>>
    /\ UNCHANGED <<database_stats, selected_db_index, selected_coll_index, graphs,
                   selected_graph_index, collection_details, scroll_offset, accessible,
                   documents, navigation_stack, graph_details, session>>

\* Esc
ModalEsc ==
    /\ InModal
    /\ input_state' = None
    /\ dialog' = Closed("Esc")
    /\ fetches' = <<>>
    /\ UNCHANGED <<view, database_stats, selected_db_index, collections,
                   selected_coll_index, graphs, selected_graph_index, collection_details,
                   scroll_offset, accessible, documents, navigation_stack, graph_details,
                   session>>

\* The modal without its `continue`: a key it does not know (Down) reaches
\* the match of the view below.
ModalOtherReachesView ==
    /\ InModal
    /\ collections # <<>>
    /\ selected_coll_index' = WrapNext(selected_coll_index, Len(collections))
    /\ dialog' = Typed(None)
    /\ fetches' = <<>>
    /\ UNCHANGED <<view, database_stats, selected_db_index, collections, graphs,
                   selected_graph_index, collection_details, scroll_offset, accessible,
                   input_state, documents, navigation_stack, graph_details, session>>

\* _ => {}
ModalOther ==
    /\ InModal
    /\ dialog' = Typed(None)
    /\ fetches' = <<>>
    /\ UNCHANGED <<browser, session>>

-----
(* BrowserView::GraphList(db)                                              *)

\* 'q' | Esc calling load_databases on the way back to DatabaseList.
GraphListQuitReloads ==
    /\ InView("GraphList")
    /\ view' = DatabaseList
    /\ graphs' = <<>>
    /\ \E o \in DatabaseOutcomes :
         /\ Fetched(DatabaseCalls(o))
         /\ IF o.ok
            THEN /\ accessible' = TRUE
                 /\ database_stats' = LoadedDatabases(o)
                 /\ selected_db_index' = 0
            ELSE /\ accessible' = FALSE
                 /\ UNCHANGED <<database_stats, selected_db_index>>
    /\ UNCHANGED <<collections, selected_coll_index, selected_graph_index,
                   collection_details, scroll_offset, input_state, documents,
                   navigation_stack, graph_details, session>>

\* 'q' | Esc
GraphListQuit ==
    /\ InView("GraphList")
    /\ view' = DatabaseList
    /\ graphs' = <<>>
    /\ Fetched(<<>>)
    /\ UNCHANGED <<database_stats, selected_db_index, collections, selected_coll_index,
                   selected_graph_index, collection_details, scroll_offset, accessible,
                   input_state, documents, navigation_stack, graph_details, session>>

\* 'c' | 'C'
GraphListCollections ==
    /\ InView("GraphList")
    /\ view' = CollectionList(view.db)
    /\ Fetched(<<>>)
    /\ UNCHANGED <<database_stats, selected_db_index, collections, selected_coll_index,
                   graphs, selected_graph_index, collection_details, scroll_offset,
                   accessible, input_state, documents, navigation_stack, graph_details,
                   session>>

\* The jump without its `if let Some(pos)`: the cursor stays where
\* load_collections put it.
JumpIndexUnmapped(colls, target) == 0

\* selected_coll_index after load_collections and
\* `if let Some(pos) = position(..) { selected_coll_index = pos }`.
JumpIndex(colls, target) ==
    IF Position(colls, target) = None THEN 0 ELSE Position(colls, target)[1]

\* The jump pushing the view it goes to instead of the view it leaves.
JumpToCollectionPushesTarget(target) ==
    /\ Len(navigation_stack) < MaxStack
    /\ navigation_stack'
         = Append(navigation_stack, <<CollectionList(view.db), selected_graph_index>>)
    /\ \E o \in CollectionOutcomes :
         /\ Fetched(CollectionCalls(view.db, o))
         /\ IF o.ok
            THEN /\ collections' = LoadedCollections(o)
                 /\ selected_coll_index' = JumpIndex(LoadedCollections(o), target)
                 /\ scroll_offset' = 0
                 /\ view' = CollectionList(view.db)
                 /\ UNCHANGED session
            ELSE /\ Propagate
                 /\ UNCHANGED <<collections, selected_coll_index, scroll_offset, view>>
    /\ UNCHANGED <<database_stats, selected_db_index, graphs, selected_graph_index,
                   collection_details, accessible, input_state, documents, graph_details>>

\* The jump of the Enter arm (to the edge collection) and of the 'v' arm (to
\* the first "from" collection): push, load_collections, select, switch.
JumpToCollection(target) ==
    /\ Len(navigation_stack) < MaxStack
    /\ navigation_stack' = Append(navigation_stack, <<view, selected_graph_index>>)
    /\ \E o \in CollectionOutcomes :
         /\ Fetched(CollectionCalls(view.db, o))
         /\ IF o.ok
            THEN /\ collections' = LoadedCollections(o)
                 /\ selected_coll_index' = JumpIndex(LoadedCollections(o), target)
                 /\ scroll_offset' = 0
                 /\ view' = CollectionList(view.db)
                 /\ UNCHANGED session
            ELSE /\ Propagate
                 /\ UNCHANGED <<collections, selected_coll_index, scroll_offset, view>>
    /\ UNCHANGED <<database_stats, selected_db_index, graphs, selected_graph_index,
                   collection_details, accessible, input_state, documents, graph_details>>

\* load_graph_details taking the first graph of the list, whatever its name.
OpenGraphPropertiesOfFirst(graph_name) ==
    /\ graph_details' = Some(graphs[1])
    /\ scroll_offset' = 0
    /\ view' = GraphProperties(view.db, graph_name)
    /\ Fetched(<<>>)
    /\ UNCHANGED <<database_stats, selected_db_index, collections, selected_coll_index,
                   graphs, selected_graph_index, collection_details, accessible,
                   input_state, documents, navigation_stack, session>>

\* load_graph_details(graph_name), which fetches nothing and returns Ok, and
\* the switch to GraphProperties.
OpenGraphProperties(graph_name) ==
    /\ graph_details' = FindGraph(graphs, graph_name)
    /\ scroll_offset' = 0
    /\ view' = GraphProperties(view.db, graph_name)
    /\ Fetched(<<>>)
    /\ UNCHANGED <<database_stats, selected_db_index, collections, selected_coll_index,
                   graphs, selected_graph_index, collection_details, accessible,
                   input_state, documents, navigation_stack, session>>

\* Enter
GraphListEnter ==
    /\ InView("GraphList")
    /\ LET item == FindSelectedGraphItem(graphs, selected_graph_index)
       IN  IF item = None THEN Nothing
           ELSE IF item[1].edge_idx = None
           THEN OpenGraphProperties(graphs[item[1].graph_idx + 1].name)
           ELSE JumpToCollection(
                    graphs[item[1].graph_idx + 1]
                        .edge_definitions[item[1].edge_idx[1] + 1].collection)

\* 'v' | 'V' jumping to edge_def.collection, as Enter does.
GraphListVertexToEdge ==
    /\ InView("GraphList")
    /\ LET item == FindSelectedGraphItem(graphs, selected_graph_index)
       IN  IF item = None THEN Nothing
           ELSE IF item[1].edge_idx = None THEN Nothing
           ELSE LET edge_def == graphs[item[1].graph_idx + 1]
                                    .edge_definitions[item[1].edge_idx[1] + 1]
                IN  IF edge_def.from = <<>> THEN Nothing
                    ELSE JumpToCollection(edge_def.collection)

\* 'v' | 'V'
GraphListVertex ==
    /\ InView("GraphList")
    /\ LET item == FindSelectedGraphItem(graphs, selected_graph_index)
       IN  IF item = None THEN Nothing
           ELSE IF item[1].edge_idx = None THEN Nothing
           ELSE LET edge_def == graphs[item[1].graph_idx + 1]
                                    .edge_definitions[item[1].edge_idx[1] + 1]
                IN  IF edge_def.from = <<>> THEN Nothing
                    ELSE JumpToCollection(edge_def.from[1])

\* Down | 'j'
GraphListDown ==
    /\ InView("GraphList")
    /\ IF graphs # <<>> /\ TotalRows(graphs) > 0
       THEN /\ selected_graph_index' = WrapNext(selected_graph_index, TotalRows(graphs))
            /\ Fetched(<<>>)
            /\ UNCHANGED <<view, database_stats, selected_db_index, collections,
                           selected_coll_index, graphs, collection_details, scroll_offset,
                           accessible, input_state, documents, navigation_stack,
                           graph_details, session>>
       ELSE Nothing

\* Up | 'k'
GraphListUp ==
    /\ InView("GraphList")
    /\ IF graphs # <<>> /\ TotalRows(graphs) > 0
       THEN /\ selected_graph_index' = WrapPrev(selected_graph_index, TotalRows(graphs))
            /\ Fetched(<<>>)
            /\ UNCHANGED <<view, database_stats, selected_db_index, collections,
                           selected_coll_index, graphs, collection_details, scroll_offset,
                           accessible, input_state, documents, navigation_stack,
                           graph_details, session>>
       ELSE Nothing

\* _ => {}
GraphListOther == InView("GraphList") /\ Nothing

----------------------------------------------------------------------------
(* The detail views: CollectionProperties, DocumentViewer, GraphProperties *)

\* PageDown and PageUp move by this many lines.
PageStep == 10

\* scroll_offset = scroll_offset.saturating_add(n)
ScrollDown(tag, n) ==
    /\ InView(tag)
    /\ scroll_offset + n <= MaxScroll
    /\ scroll_offset' = scroll_offset + n
    /\ Fetched(<<>>)
    /\ UNCHANGED <<view, database_stats, selected_db_index, collections,
                   selected_coll_index, graphs, selected_graph_index, collection_details,
                   accessible, input_state, documents, navigation_stack, graph_details,
                   session>>

\* scroll_offset = scroll_offset - n, which does not saturate.
ScrollUpUnsaturated(tag, n) ==
    /\ InView(tag)
    /\ scroll_offset' = scroll_offset - n
    /\ Fetched(<<>>)
    /\ UNCHANGED <<view, database_stats, selected_db_index, collections,
                   selected_coll_index, graphs, selected_graph_index, collection_details,
                   accessible, input_state, documents, navigation_stack, graph_details,
                   session>>

\* scroll_offset = scroll_offset.saturating_sub(n)
ScrollUp(tag, n) ==
    /\ InView(tag)
    /\ scroll_offset' = SaturatingSub(scroll_offset, n)
    /\ Fetched(<<>>)
    /\ UNCHANGED <<view, database_stats, selected_db_index, collections,
                   selected_coll_index, graphs, selected_graph_index, collection_details,
                   accessible, input_state, documents, navigation_stack, graph_details,
                   session>>

\* CollectionProperties: 'q' | Esc
CollectionPropertiesClose ==
    /\ InView("CollectionProperties")
    /\ view' = CollectionList(view.db)
    /\ collection_details' = None
    /\ scroll_offset' = 0
    /\ Fetched(<<>>)
    /\ UNCHANGED <<database_stats, selected_db_index, collections, selected_coll_index,
                   graphs, selected_graph_index, accessible, input_state, documents,
                   navigation_stack, graph_details, session>>

CollectionPropertiesDown == ScrollDown("CollectionProperties", 1)
CollectionPropertiesUp == ScrollUp("CollectionProperties", 1)
CollectionPropertiesPageDown == ScrollDown("CollectionProperties", PageStep)
CollectionPropertiesPageUp == ScrollUp("CollectionProperties", PageStep)
CollectionPropertiesOther == InView("CollectionProperties") /\ Nothing

\* DocumentViewer: 'q' | Esc
\* 'q' | Esc of DocumentViewer without documents.clear().
DocumentViewerCloseKeepsDocuments ==
    /\ InView("DocumentViewer")
    /\ view' = CollectionList(view.db)
    /\ scroll_offset' = 0
    /\ Fetched(<<>>)
    /\ UNCHANGED <<database_stats, selected_db_index, collections, selected_coll_index,
                   graphs, selected_graph_index, collection_details, accessible,
                   input_state, documents, navigation_stack, graph_details, session>>

\* DocumentViewer closed without `scroll_offset = 0`.
DocumentViewerCloseKeepsScroll ==
    /\ InView("DocumentViewer")
    /\ view' = CollectionList(view.db)
    /\ documents' = <<>>
    /\ Fetched(<<>>)
    /\ UNCHANGED <<database_stats, selected_db_index, collections, selected_coll_index,
                   graphs, selected_graph_index, collection_details, scroll_offset,
                   accessible, input_state, navigation_stack, graph_details, session>>

DocumentViewerClose ==
    /\ InView("DocumentViewer")
    /\ view' = CollectionList(view.db)
    /\ documents' = <<>>
    /\ scroll_offset' = 0
    /\ Fetched(<<>>)
    /\ UNCHANGED <<database_stats, selected_db_index, collections, selected_coll_index,
                   graphs, selected_graph_index, collection_details, accessible,
                   input_state, navigation_stack, graph_details, session>>

DocumentViewerDown == ScrollDown("DocumentViewer", 1)
DocumentViewerUp == ScrollUp("DocumentViewer", 1)
DocumentViewerPageDown == ScrollDown("DocumentViewer", PageStep)
DocumentViewerPageUp == ScrollUp("DocumentViewer", PageStep)
DocumentViewerOther == InView("DocumentViewer") /\ Nothing

\* GraphProperties closed without `graph_details = None`.
GraphPropertiesCloseKeepsDetail ==
    /\ InView("GraphProperties")
    /\ view' = GraphList(view.db)
    /\ scroll_offset' = 0
    /\ Fetched(<<>>)
    /\ UNCHANGED <<database_stats, selected_db_index, collections, selected_coll_index,
                   graphs, selected_graph_index, collection_details, accessible,
                   input_state, documents, navigation_stack, graph_details, session>>

\* GraphProperties: 'q' | Esc
GraphPropertiesClose ==
    /\ InView("GraphProperties")
    /\ view' = GraphList(view.db)
    /\ graph_details' = None
    /\ scroll_offset' = 0
    /\ Fetched(<<>>)
    /\ UNCHANGED <<database_stats, selected_db_index, collections, selected_coll_index,
                   graphs, selected_graph_index, collection_details, accessible,
                   input_state, documents, navigation_stack, session>>

GraphPropertiesDown == ScrollDown("GraphProperties", 1)
GraphPropertiesUp == ScrollUp("GraphProperties", 1)
GraphPropertiesPageDown == ScrollDown("GraphProperties", PageStep)
GraphPropertiesPageUp == ScrollUp("GraphProperties", PageStep)
GraphPropertiesOther == InView("GraphProperties") /\ Nothing

----------------------------------------------------------------------------
(* run_database_browser: load_databases, then one key a turn of the loop.  *)

Next ==
    \/ LoadDatabases /\ AnyKey
    \/ DatabaseListQuit /\ Pressed("DatabaseList", "Esc")
    \/ DatabaseListDown /\ AnyKey
    \/ DatabaseListUp /\ AnyKey
    \/ DatabaseListEnter /\ Pressed("DatabaseList", "Enter")
    \/ DatabaseListOther /\ AnyKey
    \/ CollectionListQuit /\ Pressed("CollectionList", "Esc")
    \/ CollectionListBackspace /\ Pressed("CollectionList", "Backspace")
    \/ CollectionListGraphs /\ AnyKey
    \/ CollectionListSpace /\ AnyKey
    \/ CollectionListDown /\ AnyKey
    \/ CollectionListUp /\ AnyKey
    \/ CollectionListEnter /\ Pressed("CollectionList", "Enter")
    \/ CollectionListOther /\ AnyKey
    \/ ModalDigit /\ AnyKey
    \/ ModalBackspace /\ AnyKey
    \/ ModalEnter /\ Pressed("InputDialog", "Enter")
    \/ ModalEsc /\ Pressed("InputDialog", "Esc")
    \/ ModalOther /\ AnyKey
    \/ GraphListQuit /\ Pressed("GraphList", "Esc")
    \/ GraphListCollections /\ AnyKey
    \/ GraphListEnter /\ Pressed("GraphList", "Enter")
    \/ GraphListVertex /\ Pressed("GraphList", "v")
    \/ GraphListDown /\ AnyKey
    \/ GraphListUp /\ AnyKey
    \/ GraphListOther /\ AnyKey
    \/ CollectionPropertiesClose /\ Pressed("CollectionProperties", "Esc")
    \/ CollectionPropertiesDown /\ AnyKey
    \/ CollectionPropertiesUp /\ AnyKey
    \/ CollectionPropertiesPageDown /\ AnyKey
    \/ CollectionPropertiesPageUp /\ AnyKey
    \/ CollectionPropertiesOther /\ AnyKey
    \/ DocumentViewerClose /\ Pressed("DocumentViewer", "Esc")
    \/ DocumentViewerDown /\ AnyKey
    \/ DocumentViewerUp /\ AnyKey
    \/ DocumentViewerPageDown /\ AnyKey
    \/ DocumentViewerPageUp /\ AnyKey
    \/ DocumentViewerOther /\ AnyKey
    \/ GraphPropertiesClose /\ Pressed("GraphProperties", "Esc")
    \/ GraphPropertiesDown /\ AnyKey
    \/ GraphPropertiesUp /\ AnyKey
    \/ GraphPropertiesPageDown /\ AnyKey
    \/ GraphPropertiesPageUp /\ AnyKey
    \/ GraphPropertiesOther /\ AnyKey

Spec == Init /\ [][Next]_vars

----------------------------------------------------------------------------
(* The selection indexer on its own: GraphList over any graph list that    *)
(* get_graphs may return, and the keys of GraphList that use total_rows    *)
(* and find_selected_graph_item.                                           *)

GraphNames == <<"g1", "g2", "g3", "g4", "g5">>

\* n edge definitions.
EdgesOfLength(n) == [k \in 1..n |-> IF k % 2 = 1 THEN EdgeLikes ELSE EdgeUser]

\* The graph list whose g-th graph has shape[g] edge definitions.
GraphsOfShape(shape) ==
    [g \in 1..Len(shape) |-> Graph(GraphNames[g], EdgesOfLength(shape[g]))]

\* get_graphs: the non-empty graph lists of at most MaxGraphs graphs of at
\* most MaxEdges edge definitions.
AnyGraphListings ==
    {GraphsOfShape(shape) : shape \in UNION {[1..n -> 0..MaxEdges] : n \in 1..MaxGraphs}}

\* GraphList("a") as 'g' of CollectionList("a") enters it: load_graphs has
\* loaded the graphs and put the cursor on row 0.
IndexerInit ==
    /\ view = GraphList("a")
    /\ database_stats
         = LoadedDatabases([ok |-> TRUE, names |-> <<"a", "b", "c">>,
                            reachable |-> {"a", "b"}])
    /\ selected_db_index = 0
    /\ collections
         = LoadedCollections([ok |-> TRUE, listing |-> <<Apps, User, Likes>>,
                              count_fails |-> {}])
    /\ selected_coll_index = 0
    /\ graphs \in AnyGraphListings
    /\ selected_graph_index = 0
    /\ collection_details = None
    /\ scroll_offset = 0
    /\ accessible = TRUE
    /\ input_state = None
    /\ documents = <<>>
    /\ navigation_stack = <<>>
    /\ graph_details = None
    /\ session = "running"
    /\ fetches = GraphCalls("a", [ok |-> TRUE, graphs |-> graphs])
    /\ event = NoEvent
    /\ dialog = None
    /\ listed_db = "a"
    /\ pending = 0
    /\ in_flight = {}
    /\ task = AtRead

IndexerNext ==
    \/ GraphListDown /\ AnyKey
    \/ GraphListUp /\ AnyKey
    \/ GraphListEnter /\ Pressed("GraphList", "Enter")
    \/ GraphListVertex /\ Pressed("GraphList", "v")

IndexerSpec == IndexerInit /\ [][IndexerNext]_vars

----------------------------------------------------------------------------
(* load_collections on its own: DatabaseList, Enter on a database whose    *)
(* get_collections may return any listing, and the keys of DatabaseList    *)
(* and CollectionList that move the cursor and go back to DatabaseList.    *)

GraphsCollection == [name |-> "_graphs", is_system |-> TRUE]

\* The sequences of the elements of S, each once.
RECURSIVE Orderings(_)
Orderings(S) ==
    IF S = {} THEN {<<>>}
    ELSE UNION {{<<x>> \o rest : rest \in Orderings(S \ {x})} : x \in S}

\* get_collections: any collections of the four, in any order.
AnyCollectionListings ==
    UNION {Orderings(S) : S \in SUBSET {Likes, User, Apps, GraphsCollection}}

AnyCollectionOutcomes ==
    {[ok |-> TRUE, listing |-> l, count_fails |-> {}] : l \in AnyCollectionListings}

\* DatabaseList as load_databases leaves it.
CollectionsInit ==
    /\ view = DatabaseList
    /\ database_stats
         = LoadedDatabases([ok |-> TRUE, names |-> <<"a", "b", "c">>,
                            reachable |-> {"a", "b"}])
    /\ selected_db_index = 0
    /\ collections = <<>>
    /\ selected_coll_index = 0
    /\ graphs = <<>>
    /\ selected_graph_index = 0
    /\ collection_details = None
    /\ scroll_offset = 0
    /\ accessible = TRUE
    /\ input_state = None
    /\ documents = <<>>
    /\ navigation_stack = <<>>
    /\ graph_details = None
    /\ session = "running"
    /\ fetches = <<>>
    /\ event = NoEvent
    /\ dialog = None
    /\ listed_db = ""
    /\ pending = 0
    /\ in_flight = {}
    /\ task = AtRead

CollectionsNext ==
    \/ DatabaseListDown /\ AnyKey
    \/ DatabaseListUp /\ AnyKey
    \/ EnterDatabase(AnyCollectionOutcomes) /\ Pressed("DatabaseList", "Enter")
    \/ CollectionListDown /\ AnyKey
    \/ CollectionListUp /\ AnyKey
    \/ CollectionListQuit /\ Pressed("CollectionList", "Esc")

CollectionsSpec == CollectionsInit /\ [][CollectionsNext]_vars

----------------------------------------------------------------------------
(* The event loop await by await.  run_database_browser is one task: it    *)
(* reads a key, runs the arm of the key up to an .await of a gateway call, *)
(* and goes on when the call returns; the keys pressed meanwhile wait in   *)
(* the terminal.  A step is a key read and the code up to the first        *)
(* .await, or the return of a call and the code up to the next .await (or  *)
(* to event::read()).  `fetches` collects the calls of the event as they   *)
(* return.                                                                 *)

\* The most key presses the terminal is given to hold.
MaxPending == 2

\* A call sent to the server.
Request(op, db, coll, limit) == [op |-> op, db |-> db, coll |-> coll, limit |-> limit]

\* The task inside load_* `load`, called by the arm `arm`, with the locals
\* the arm uses after it: the collection to select, the popped stack entry.
Awaiting(load, arm, target, prev) ==
    [at |-> load, arm |-> arm, target |-> target, prev |-> prev, outcome |-> None,
     k |-> 0]

\* run_database_browser before `browser.load_databases(app_state).await?`.
AtStart == [AtRead EXCEPT !.at = "run_database_browser"]

\* What the server answers in this specification.
AwaitedCollections == {o \in CollectionOutcomes : Len(o.listing) \in {0, 2}}
AwaitedGraphs == {o \in GraphOutcomes : Len(o.graphs) <= 1}

\* `.await` of a gateway call: the request goes out.
Send(request) == in_flight' = in_flight \cup {request}

\* The call that returns.
Answered == CHOOSE r \in in_flight : TRUE

\* The call has returned and the next one goes out.
SendNext(request) == in_flight' = (in_flight \ {Answered}) \cup {request}

\* The call has returned and the arm runs to its end: back to event::read().
Resume == in_flight' = in_flight \ {Answered} /\ task' = AtRead

\* The call has returned an Err, which `?` propagates.
ResumeErr == Resume /\ Propagate

AwaitInit ==
    /\ view = DatabaseList
    /\ database_stats = <<>>
    /\ selected_db_index = 0
    /\ collections = <<>>
    /\ selected_coll_index = 0
    /\ graphs = <<>>
    /\ selected_graph_index = 0
    /\ collection_details = None
    /\ scroll_offset = 0
    /\ accessible = TRUE
    /\ input_state = None
    /\ documents = <<>>
    /\ navigation_stack = <<>>
    /\ graph_details = None
    /\ session = "new"
    /\ fetches = <<>>
    /\ event = NoEvent
    /\ dialog = None
    /\ listed_db = ""
    /\ pending = 0
    /\ in_flight = {}
    /\ task = AtStart

\* The user presses a key: the terminal holds it until event::read().
KeyPressed ==
    /\ session \in {"new", "running"}
    /\ pending < MaxPending
    /\ pending' = pending + 1
    /\ UNCHANGED <<browser, session, fetches, event, dialog, listed_db, in_flight, task>>

\* event::read() returning a key to a task that gets past it when a call
\* is still awaited.
ReadingWhileAwaiting == pending > 0

\* event::read() returns a key: the task is there, and a key is held.
Reading == task.at = "event::read" /\ pending > 0

\* The key read is taken by the arm `arm`.
Read(arm, key) ==
    /\ Reading
    /\ pending' = pending - 1
    /\ event' = [arm |-> arm, key |-> key]

\* An arm without an .await, from event::read() to the next.
Handle(arm, key) == Read(arm, key) /\ UNCHANGED <<listed_db, in_flight, task>>

\* browser.load_databases(app_state).await?, up to its get_databases.
CallLoadDatabases ==
    /\ task.at = "run_database_browser"
    /\ Send(Request("get_databases", "", "", None))
    /\ task' = Awaiting("load_databases", "", "", None)
    /\ UNCHANGED <<browser, session, fetches, event, dialog, listed_db, pending>>

\* load_databases: get_databases returns; Ok sets accessible and goes on to
\* the get_database_stats of the first database, Err clears accessible.
GetDatabasesReturns ==
    /\ task.at = "load_databases"
    /\ task.outcome = None
    /\ \E o \in DatabaseOutcomes :
         /\ fetches' = Append(fetches, DatabaseCalls(o)[1])
         /\ accessible' = o.ok
         /\ IF o.ok /\ o.names # <<>>
            THEN /\ SendNext(Request("get_collections", o.names[1], "", None))
                 /\ task' = [task EXCEPT !.outcome = Some(o)]
                 /\ UNCHANGED <<database_stats, selected_db_index, session>>
            ELSE /\ Resume
                 /\ session' = "running"
                 /\ IF o.ok
                    THEN database_stats' = <<>> /\ selected_db_index' = 0
                    ELSE UNCHANGED <<database_stats, selected_db_index>>
    /\ UNCHANGED <<view, collections, selected_coll_index, graphs, selected_graph_index,
                   collection_details, scroll_offset, input_state, documents,
                   navigation_stack, graph_details, event, dialog, listed_db, pending>>

\* load_databases: the get_database_stats of a database returns; after the
\* last one the stats are assigned.
GetDatabaseStatsReturns ==
    /\ task.at = "load_databases"
    /\ task.outcome # None
    /\ LET o == task.outcome[1]
           k == task.k + 1
       IN  /\ fetches' = Append(fetches, DatabaseCalls(o)[k + 1])
           /\ IF k < Len(o.names)
              THEN /\ SendNext(Request("get_collections", o.names[k + 1], "", None))
                   /\ task' = [task EXCEPT !.k = k]
                   /\ UNCHANGED <<database_stats, selected_db_index, session>>
              ELSE /\ Resume
                   /\ database_stats' = LoadedDatabases(o)
                   /\ selected_db_index' = 0
                   /\ session' = "running"
    /\ UNCHANGED <<view, collections, selected_coll_index, graphs, selected_graph_index,
                   collection_details, scroll_offset, accessible, input_state, documents,
                   navigation_stack, graph_details, event, dialog, listed_db, pending>>

\* browser.load_collections(app_state, db).await?, up to its get_collections.
CallLoadCollections(db, arm, target) ==
    /\ Send(Request("get_collections", db, "", None))
    /\ task' = Awaiting("load_collections", arm, target, None)

\* load_collections has counted the last collection: it sorts and assigns,
\* returns Ok, and the arm selects and switches to CollectionList(db).
LoadCollectionsReturns(db, o) ==
    /\ Resume
    /\ collections' = LoadedCollections(o)
    /\ selected_coll_index' = IF task.arm = "jump"
                              THEN JumpIndex(LoadedCollections(o), task.target)
                              ELSE 0
    /\ scroll_offset' = 0
    /\ view' = CollectionList(db)
    /\ listed_db' = db
    /\ UNCHANGED session

\* load_collections: get_collections returns.
GetCollectionsReturns ==
    /\ task.at = "load_collections"
    /\ task.outcome = None
    /\ \E o \in AwaitedCollections :
         /\ fetches' = Append(fetches, CollectionCalls(Answered.db, o)[1])
         /\ IF ~o.ok
            THEN /\ ResumeErr
                 /\ UNCHANGED <<collections, selected_coll_index, scroll_offset, view,
                                listed_db>>
            ELSE IF o.listing = <<>>
            THEN LoadCollectionsReturns(Answered.db, o)
            ELSE /\ SendNext(Request("get_collection_count", Answered.db,
                                     o.listing[1].name, None))
                 /\ task' = [task EXCEPT !.outcome = Some(o)]
                 /\ UNCHANGED <<collections, selected_coll_index, scroll_offset, view,
                                listed_db, session>>
    /\ UNCHANGED <<database_stats, selected_db_index, graphs, selected_graph_index,
                   collection_details, accessible, input_state, documents,
                   navigation_stack, graph_details, event, dialog, pending>>

\* load_collections: the get_collection_count of a collection returns
\* (`.ok()`: its Err is a count of None).
GetCollectionCountReturns ==
    /\ task.at = "load_collections"
    /\ task.outcome # None
    /\ LET o == task.outcome[1]
           k == task.k + 1
           db == Answered.db
       IN  /\ fetches' = Append(fetches, CollectionCalls(db, o)[k + 1])
           /\ IF k < Len(o.listing)
              THEN /\ SendNext(Request("get_collection_count", db,
                                       o.listing[k + 1].name, None))
                   /\ task' = [task EXCEPT !.k = k]
                   /\ UNCHANGED <<collections, selected_coll_index, scroll_offset, view,
                                  listed_db, session>>
              ELSE LoadCollectionsReturns(db, o)
    /\ UNCHANGED <<database_stats, selected_db_index, graphs, selected_graph_index,
                   collection_details, accessible, input_state, documents,
                   navigation_stack, graph_details, event, dialog, pending>>

\* browser.load_graphs(app_state, db).await?, up to its get_graphs.
CallLoadGraphs(db, arm, prev) ==
    /\ Send(Request("get_graphs", db, "", None))
    /\ task' = Awaiting("load_graphs", arm, "", prev)

\* load_graphs: get_graphs returns; the arm of 'g' switches to GraphList(db),
\* the arm of Backspace restores the popped cursor and view.
GetGraphsReturns ==
    /\ task.at = "load_graphs"
    /\ \E o \in AwaitedGraphs :
         /\ fetches' = fetches \o GraphCalls(Answered.db, o)
         /\ IF o.ok
            THEN /\ Resume
                 /\ graphs' = o.graphs
                 /\ scroll_offset' = 0
                 /\ selected_graph_index' = IF task.prev = None THEN 0
                                            ELSE task.prev[1][2]
                 /\ view' = IF task.prev = None THEN GraphList(Answered.db)
                            ELSE task.prev[1][1]
                 /\ UNCHANGED session
            ELSE /\ ResumeErr
                 /\ UNCHANGED <<graphs, scroll_offset, selected_graph_index, view>>
    /\ UNCHANGED <<database_stats, selected_db_index, collections, selected_coll_index,
                   collection_details, accessible, input_state, documents,
                   navigation_stack, graph_details, event, dialog, listed_db, pending>>

\* load_collection_details: get_collection_count returns.
CollectionDetailsReturn ==
    /\ task.at = "load_collection_details"
    /\ LET r == Answered
       IN  \E o \in DetailOutcomes(r.coll) :
             /\ fetches' = Append(fetches, Call(r.op, r.db, r.coll, None, o.ok))
             /\ IF o.ok
                THEN /\ Resume
                     /\ collection_details' = o.details
                     /\ scroll_offset' = 0
                     /\ view' = CollectionProperties(r.db, r.coll)
                     /\ UNCHANGED session
                ELSE /\ ResumeErr
                     /\ UNCHANGED <<collection_details, scroll_offset, view>>
    /\ UNCHANGED <<database_stats, selected_db_index, collections, selected_coll_index,
                   graphs, selected_graph_index, accessible, input_state, documents,
                   navigation_stack, graph_details, event, dialog, listed_db, pending>>

\* load_documents: execute_aql_query returns.
QueryReturns ==
    /\ task.at = "load_documents"
    /\ LET r == Answered
       IN  \E o \in DocumentOutcomes(r.limit[1]) :
             /\ fetches' = Append(fetches, Call(r.op, r.db, r.coll, r.limit, o.ok))
             /\ IF o.ok
                THEN /\ Resume
                     /\ documents' = o.documents
                     /\ scroll_offset' = 0
                     /\ view' = DocumentViewer(r.db, r.coll)
                     /\ UNCHANGED session
                ELSE /\ ResumeErr
                     /\ UNCHANGED <<documents, scroll_offset, view>>
    /\ UNCHANGED <<database_stats, selected_db_index, collections, selected_coll_index,
                   graphs, selected_graph_index, collection_details, accessible,
                   input_state, navigation_stack, graph_details, event, dialog, listed_db,
                   pending>>

\* DatabaseList, Enter: up to the .await of load_collections.
AwaitDatabaseListEnter ==
    /\ InView("DatabaseList")
    /\ Nothing
    /\ IF /\ selected_db_index < Len(database_stats)
          /\ database_stats[selected_db_index + 1].accessible
       THEN CallLoadCollections(database_stats[selected_db_index + 1].name, "enter", "")
       ELSE UNCHANGED <<in_flight, task>>

\* CollectionList, Backspace: the pop, and up to the .await of load_graphs.
AwaitCollectionListBackspace ==
    /\ InView("CollectionList")
    /\ Fetched(<<>>)
    /\ IF navigation_stack # <<>>
       THEN LET prev_view == navigation_stack[Len(navigation_stack)][1]
                prev_index == navigation_stack[Len(navigation_stack)][2]
            IN  /\ navigation_stack' = SubSeq(navigation_stack, 1, Len(navigation_stack) - 1)
                /\ IF prev_view.tag = "GraphList"
                   THEN /\ CallLoadGraphs(prev_view.db, "back",
                                          Some(<<prev_view, prev_index>>))
                        /\ UNCHANGED view
                   ELSE /\ view' = prev_view
                        /\ UNCHANGED <<in_flight, task>>
       ELSE UNCHANGED <<navigation_stack, view, in_flight, task>>
    /\ UNCHANGED <<database_stats, selected_db_index, collections, selected_coll_index,
                   graphs, selected_graph_index, collection_details, scroll_offset,
                   accessible, input_state, documents, graph_details, session>>

\* CollectionList, 'g' | 'G': up to the .await of load_graphs.
AwaitCollectionListGraphs ==
    /\ InView("CollectionList")
    /\ Nothing
    /\ CallLoadGraphs(view.db, "graphs", None)

\* CollectionList, Enter: up to the .await of load_collection_details.
AwaitCollectionListEnter ==
    /\ InView("CollectionList")
    /\ Nothing
    /\ IF selected_coll_index < Len(collections)
       THEN /\ Send(Request("get_collection_count", view.db,
                            collections[selected_coll_index + 1].info.name, None))
            /\ task' = Awaiting("load_collection_details", "enter", "", None)
       ELSE UNCHANGED <<in_flight, task>>

\* The modal, Enter: it closes, and up to the .await of load_documents.
AwaitModalEnter ==
    /\ InModal
    /\ input_state' = None
    /\ dialog' = Closed("Enter")
    /\ fetches' = <<>>
    /\ IF view.tag = "CollectionList" /\ selected_coll_index < Len(collections)
       THEN /\ Send(Request("execute_aql_query", view.db,
                            collections[selected_coll_index + 1].info.name,
                            Some(ParseCount(input_state[1]))))
            /\ task' = Awaiting("load_documents", "confirm", "", None)
       ELSE UNCHANGED <<in_flight, task>>
    /\ UNCHANGED <<view, database_stats, selected_db_index, collections,
                   selected_coll_index, graphs, selected_graph_index, collection_details,
                   scroll_offset, accessible, documents, navigation_stack, graph_details,
                   session>>

\* The jumps of GraphList: the push, and up to the .await of load_collections.
AwaitJump(target) ==
    /\ Len(navigation_stack) < MaxStack
    /\ navigation_stack' = Append(navigation_stack, <<view, selected_graph_index>>)
    /\ CallLoadCollections(view.db, "jump", target)
    /\ Fetched(<<>>)
    /\ UNCHANGED <<view, database_stats, selected_db_index, collections,
                   selected_coll_index, graphs, selected_graph_index, collection_details,
                   scroll_offset, accessible, input_state, documents, graph_details,
                   session>>

\* GraphList, Enter
AwaitGraphListEnter ==
    /\ InView("GraphList")
    /\ LET item == FindSelectedGraphItem(graphs, selected_graph_index)
       IN  IF item = None THEN Nothing /\ UNCHANGED <<in_flight, task>>
           ELSE IF item[1].edge_idx = None
           THEN /\ OpenGraphProperties(graphs[item[1].graph_idx + 1].name)
                /\ UNCHANGED <<in_flight, task>>
           ELSE AwaitJump(
                    graphs[item[1].graph_idx + 1]
                        .edge_definitions[item[1].edge_idx[1] + 1].collection)

\* GraphList, 'v' | 'V'
AwaitGraphListVertex ==
    /\ InView("GraphList")
    /\ LET item == FindSelectedGraphItem(graphs, selected_graph_index)
       IN  IF item = None THEN Nothing /\ UNCHANGED <<in_flight, task>>
           ELSE IF item[1].edge_idx = None THEN Nothing /\ UNCHANGED <<in_flight, task>>
           ELSE LET edge_def == graphs[item[1].graph_idx + 1]
                                    .edge_definitions[item[1].edge_idx[1] + 1]
                IN  IF edge_def.from = <<>> THEN Nothing /\ UNCHANGED <<in_flight, task>>
                    ELSE AwaitJump(edge_def.from[1])

AwaitNext ==
    \/ KeyPressed
    \/ CallLoadDatabases
    \/ GetDatabasesReturns
    \/ GetDatabaseStatsReturns
    \/ GetCollectionsReturns
    \/ GetCollectionCountReturns
    \/ GetGraphsReturns
    \/ CollectionDetailsReturn
    \/ QueryReturns
    \/ DatabaseListQuit /\ Handle("DatabaseList", "Esc")
    \/ DatabaseListDown /\ Handle("", "")
    \/ DatabaseListUp /\ Handle("", "")
    \/ AwaitDatabaseListEnter /\ Read("DatabaseList", "Enter") /\ UNCHANGED listed_db
    \/ DatabaseListOther /\ Handle("", "")
    \/ CollectionListQuit /\ Handle("CollectionList", "Esc")
    \/ AwaitCollectionListBackspace /\ Read("CollectionList", "Backspace")
         /\ UNCHANGED listed_db
    \/ AwaitCollectionListGraphs /\ Read("", "") /\ UNCHANGED listed_db
    \/ CollectionListSpace /\ Handle("", "")
    \/ CollectionListDown /\ Handle("", "")
    \/ CollectionListUp /\ Handle("", "")
    \/ AwaitCollectionListEnter /\ Read("CollectionList", "Enter") /\ UNCHANGED listed_db
    \/ CollectionListOther /\ Handle("", "")
    \/ ModalDigit /\ Handle("", "")
    \/ ModalBackspace /\ Handle("", "")
    \/ AwaitModalEnter /\ Read("InputDialog", "Enter") /\ UNCHANGED listed_db
    \/ ModalEsc /\ Handle("InputDialog", "Esc")
    \/ ModalOther /\ Handle("", "")
    \/ GraphListQuit /\ Handle("GraphList", "Esc")
    \/ GraphListCollections /\ Handle("", "")
    \/ AwaitGraphListEnter /\ Read("GraphList", "Enter") /\ UNCHANGED listed_db
    \/ AwaitGraphListVertex /\ Read("GraphList", "v") /\ UNCHANGED listed_db
    \/ GraphListDown /\ Handle("", "")
    \/ GraphListUp /\ Handle("", "")
    \/ GraphListOther /\ Handle("", "")
    \/ CollectionPropertiesClose /\ Handle("CollectionProperties", "Esc")
    \/ CollectionPropertiesDown /\ Handle("", "")
    \/ CollectionPropertiesUp /\ Handle("", "")
    \/ CollectionPropertiesPageDown /\ Handle("", "")
    \/ CollectionPropertiesPageUp /\ Handle("", "")
    \/ CollectionPropertiesOther /\ Handle("", "")
    \/ DocumentViewerClose /\ Handle("DocumentViewer", "Esc")
    \/ DocumentViewerDown /\ Handle("", "")
    \/ DocumentViewerUp /\ Handle("", "")
    \/ DocumentViewerPageDown /\ Handle("", "")
    \/ DocumentViewerPageUp /\ Handle("", "")
    \/ DocumentViewerOther /\ Handle("", "")
    \/ GraphPropertiesClose /\ Handle("GraphProperties", "Esc")
    \/ GraphPropertiesDown /\ Handle("", "")
    \/ GraphPropertiesUp /\ Handle("", "")
    \/ GraphPropertiesPageDown /\ Handle("", "")
    \/ GraphPropertiesPageUp /\ Handle("", "")
    \/ GraphPropertiesOther /\ Handle("", "")

AwaitSpec == AwaitInit /\ [][AwaitNext]_vars

----------------------------------------------------------------------------
(* The claims.                                                             *)

\* The load_* method of the last event returned Err: its first call failed
\* (load_databases returns Ok whatever get_databases does, and a failed
\* count inside load_collections is not its first call).
FailedLoad(calls) ==
    calls # <<>> /\ ~calls[1].ok /\ calls[1].op # "get_databases"

\* The datasets, the selection indices and the navigation stack.
loaded == <<database_stats, collections, graphs, collection_details, documents,
            graph_details, selected_db_index, selected_coll_index,
            selected_graph_index, navigation_stack>>

\* C1: an event whose fetch (collection list, collection detail, graph list,
\* document sample) fails leaves the view, the loaded datasets, the
\* selection indices and the navigation stack as they were before it.
C1_FailedFetchChangesNothing ==
    [][FailedLoad(fetches') => UNCHANGED <<view, loaded>>]_vars

\* C2: no failed fetch ends the session: the loop of run_database_browser
\* is left only by the quit key in DatabaseList.
C2_OnlyQuitEndsSession ==
    [][(session = "running" /\ session' # "running")
         => (InView("DatabaseList") /\ session' = "quit" /\ fetches' = <<>>)]_vars

\* C3: in GraphList with a non-empty graph list the graph selection index is
\* less than the number of rows of the loaded graph list.
C3_GraphIndexInRange ==
    (view.tag = "GraphList" /\ graphs # <<>>)
        => selected_graph_index < TotalRows(graphs)

\* C4: in CollectionList with a non-empty collection list the collection
\* selection index is less than its length, and with a non-empty database
\* list the database selection index is less than its length.
C4_SelectionInRange ==
    /\ (view.tag = "CollectionList" /\ collections # <<>>)
           => selected_coll_index < Len(collections)
    /\ database_stats # <<>> => selected_db_index < Len(database_stats)

\* C4's case: the second database entered, a jump made from its graphs, and
\* the cursor moved to the last row of a list of several collections.
C4_Witness ==
    /\ view = CollectionList("b")
    /\ selected_db_index = 1
    /\ navigation_stack # <<>>
    /\ Len(collections) >= 2
    /\ selected_coll_index = Len(collections) - 1
    /\ fetches = <<>>

\* The keys the modal knows, on the buffer: a digit appended, the last
\* character removed (nothing on an empty buffer), or the buffer kept.
ModalEdits(buf) ==
    {Append(buf, c) : c \in {"0", "1", "2", "3", "4", "5", "6", "7", "8", "9"}}
    \cup {IF buf = <<>> THEN buf ELSE SubSeq(buf, 1, Len(buf) - 1), buf}

\* C5: while the modal is open a key other than confirm changes neither the
\* view, nor a dataset, nor a selection index, nor the scroll offset, nor
\* the stack, makes no fetch, and either edits the buffer (a digit more,
\* the last character less), closes the modal, or changes nothing.
C5_ModalConsumesEveryKey ==
    [][(InModal /\ ~ModalEnter)
         => /\ UNCHANGED <<view, loaded, scroll_offset, accessible, session>>
            /\ fetches' = <<>>
            /\ \/ input_state' = None
               \/ /\ input_state' # None
                  /\ input_state'[1] \in ModalEdits(input_state[1])]_vars

\* C5's case: the modal is open over a list whose cursor is not on the first
\* row, and keys were pressed in it: a backspace, then a digit.
C5_Witness ==
    /\ InModal
    /\ input_state[1] = <<"1", "1">>
    /\ dialog[1].typed = None
    /\ selected_coll_index > 0

\* The value of a string of digits, digit by digit from its powers of ten.
RECURSIVE Pow10(_)
Pow10(n) == IF n = 0 THEN 1 ELSE 10 * Pow10(n - 1)

RECURSIVE PlaceValues(_, _)
PlaceValues(buf, i) ==
    IF i > Len(buf) THEN 0
    ELSE DigitValue(buf[i]) * Pow10(Len(buf) - i) + PlaceValues(buf, i + 1)

\* The limit a confirmed buffer asks for: its decimal value, 10 when empty.
ExpectedLimit(buf) == IF buf = <<>> THEN 10 ELSE PlaceValues(buf, 1)

\* The calls are one document query, of `limit` documents.
SampleRequested(calls, limit) ==
    /\ Len(calls) = 1
    /\ calls[1].op = "execute_aql_query"
    /\ calls[1].limit = Some(limit)

\* The cursor of CollectionList is on a row of the loaded list.
CollectionSelected ==
    view.tag = "CollectionList" /\ selected_coll_index < Len(collections)

\* C6 as stated: confirm closes the modal and requests the document sample
\* with the decimal value of the buffer as its limit, 10 for an empty buffer.
C6_ConfirmRequestsSample ==
    [][ModalEnter
         => /\ input_state' = None
            /\ SampleRequested(fetches', ExpectedLimit(input_state[1]))]_vars

\* C6 as amended: confirm closes the modal; with the cursor on a row of the
\* collection list it requests the document sample with the decimal value of
\* the buffer as its limit, 10 for an empty buffer; with an empty collection
\* list it requests nothing.
C6_ConfirmRequestsSampleOfSelected ==
    [][ModalEnter
         => /\ input_state' = None
            /\ IF CollectionSelected
               THEN SampleRequested(fetches', ExpectedLimit(input_state[1]))
               ELSE fetches' = <<>>]_vars

\* C6's case (scenario D): the buffer was emptied and confirmed, and the
\* sample was requested with limit 10 and is shown.
C6_Witness ==
    /\ input_state = None
    /\ dialog # None
    /\ dialog[1].closed = "Enter"
    /\ dialog[1].input = <<>>
    /\ SampleRequested(fetches, 10)
    /\ view.tag = "DocumentViewer"

\* The modal was opened over a selected collection and the digits 1 and 0,
\* and no other key, were pressed in it.
ScenarioC ==
    /\ InModal
    /\ dialog[1].typed = Some(<<"1", "0">>)
    /\ dialog[1].opened_from.view.tag = "CollectionList"
    /\ CollectionSelected

\* C7 as stated (scenario C): the modal opened from CollectionList on a
\* selected collection, then 1, then 0, then confirm: limit 10 is requested.
C7_ScenarioRequestsTen ==
    [][(ScenarioC /\ ModalEnter) => SampleRequested(fetches', 10)]_vars

\* C7 as amended: the modal opens holding "10", the digits typed are put
\* behind it, and the same keys request limit 1010.
C7_ScenarioRequests1010 ==
    [][(ScenarioC /\ ModalEnter) => SampleRequested(fetches', 1010)]_vars

\* C7's case: 1 and 0 were typed and confirmed, and the sample is shown.
C7_Witness ==
    /\ input_state = None
    /\ dialog # None
    /\ dialog[1].closed = "Enter"
    /\ dialog[1].typed = Some(<<"1", "0">>)
    /\ fetches # <<>>
    /\ fetches[1].ok
    /\ view.tag = "DocumentViewer"

\* C8: after cancel the modal is closed, no fetch was made, and the view,
\* the datasets, the selection indices, the scroll offset and the stack are
\* what they were when the modal was opened.
C8_CancelRestores ==
    (dialog # None /\ dialog[1].closed = "Esc")
        => /\ input_state = None
           /\ Snapshot = dialog[1].opened_from
           /\ fetches = <<>>
           /\ session = "running"

\* C8's case: the modal was opened after a jump, on a row that is not the
\* first, digits were typed and it was cancelled.
C8_Witness ==
    /\ dialog # None
    /\ dialog[1].closed = "Esc"
    /\ dialog[1].typed = Some(<<"1", "1">>)
    /\ navigation_stack # <<>>
    /\ selected_coll_index > 0

\* The rows of the graph list as they are laid out: a graph, its edge
\* definitions, and a spacer unless the graph is the last.
RECURSIVE RowsFrom(_, _)
RowsFrom(gs, g) ==
    IF g >= Len(gs) THEN <<>>
    ELSE <<[kind |-> "graph", graph |-> g, edge |-> 0]>>
         \o [k \in 1..Len(gs[g + 1].edge_definitions) |->
               [kind |-> "edge", graph |-> g, edge |-> k - 1]]
         \o (IF g < Len(gs) - 1
             THEN <<[kind |-> "spacer", graph |-> g, edge |-> 0]>>
             ELSE <<>>)
         \o RowsFrom(gs, g + 1)

Rows(gs) == RowsFrom(gs, 0)

\* The row under the cursor, if the cursor is on a row.
RowAt(gs, i) ==
    IF i < Len(Rows(gs)) THEN Rows(gs)[i + 1]
    ELSE [kind |-> "none", graph |-> 0, edge |-> 0]

\* The edge definition of an edge row.
EdgeOf(gs, row) == gs[row.graph + 1].edge_definitions[row.edge + 1]

\* The first row of colls named `name`, or 0 when there is none.
ExpectedIndex(colls, name) ==
    IF \E i \in 1..Len(colls) : colls[i].info.name = name
    THEN (CHOOSE i \in 1..Len(colls) :
              /\ colls[i].info.name = name
              /\ \A j \in 1..(i - 1) : colls[j].info.name # name) - 1
    ELSE 0

\* The calls are a successful load_collections of db, and colls holds the
\* collections it listed.
CollectionsFetched(calls, db, colls) ==
    /\ calls # <<>>
    /\ calls[1] = Call("get_collections", db, "", None, TRUE)
    /\ Len(colls) = Len(calls) - 1
    /\ {colls[i].info.name : i \in 1..Len(colls)}
           = {calls[i].coll : i \in 2..Len(calls)}

\* The jump to collection `target` was made from the row under the cursor.
Jumped(target) ==
    /\ navigation_stack'
           = Append(navigation_stack, <<GraphList(view.db), selected_graph_index>>)
    /\ CollectionsFetched(fetches', view.db, collections')
    /\ selected_coll_index' = ExpectedIndex(collections', target)
    /\ view' = CollectionList(view.db)

\* C9: Enter on an edge-definition row of GraphList(db) at cursor i, when the
\* collection fetch succeeds, puts (GraphList(db), i) on the stack, loads the
\* fetched collections, puts the cursor on the row of the edge collection (on
\* row 0 if there is none) and shows CollectionList(db).
C9_EdgeJump ==
    [][(/\ GraphListEnter
        /\ RowAt(graphs, selected_graph_index).kind = "edge"
        /\ ~FailedLoad(fetches'))
         => Jumped(EdgeOf(graphs, RowAt(graphs, selected_graph_index)).collection)]_vars

\* C9's case: the jump from the row of the edge collection "user", which is
\* the second of the collections loaded.
C9_Witness ==
    /\ view = CollectionList("a")
    /\ navigation_stack = <<<<GraphList("a"), 2>>>>
    /\ RowAt(graphs, 2).kind = "edge"
    /\ EdgeOf(graphs, RowAt(graphs, 2)).collection = "user"
    /\ fetches # <<>>
    /\ Len(collections) = 2
    /\ collections[2].info.name = "user"
    /\ selected_coll_index = 1

\* C10: 'v' on an edge-definition row with a "from" collection makes the
\* jump of C9 to the first "from" collection; on a graph row, on a spacer and
\* on an edge definition without "from" collections it changes nothing and
\* fetches nothing.
C10_VertexJump ==
    [][GraphListVertex
         => LET row == RowAt(graphs, selected_graph_index)
            IN  IF row.kind = "edge" /\ EdgeOf(graphs, row).from # <<>>
                THEN /\ fetches' # <<>>
                     /\ fetches'[1].op = "get_collections"
                     /\ fetches'[1].db = view.db
                     /\ ~FailedLoad(fetches') => Jumped(EdgeOf(graphs, row).from[1])
                ELSE /\ UNCHANGED <<browser, session>>
                     /\ fetches' = <<>>]_vars

\* C10's case: the jump from the row of the edge definition of "likes", to
\* its "from" collection "user", the second of the collections loaded.
C10_Witness ==
    /\ view = CollectionList("a")
    /\ navigation_stack = <<<<GraphList("a"), 1>>>>
    /\ RowAt(graphs, 1).kind = "edge"
    /\ EdgeOf(graphs, RowAt(graphs, 1)).from = <<"user">>
    /\ EdgeOf(graphs, RowAt(graphs, 1)).collection = "likes"
    /\ fetches # <<>>
    /\ Len(collections) = 2
    /\ collections[2].info.name = "user"
    /\ selected_coll_index = 1

\* The last event was a jump from GraphList that succeeded.
JustJumped ==
    /\ event.arm = "GraphList"
    /\ event.key \in {"Enter", "v"}
    /\ view.tag = "CollectionList"

\* C11: a jump from GraphList(db) at cursor i puts (GraphList(db), i) on the
\* stack, and Backspace pressed right after it, when its fetch succeeds,
\* takes that entry off again, leaving the stack as before the jump, makes
\* GraphList(db) the view with cursor i, and shows the graphs that its own
\* get_graphs(db) returned.
C11_JumpThenBack ==
    [][/\ ((GraphListEnter \/ GraphListVertex) /\ view'.tag = "CollectionList")
           => navigation_stack'
                  = Append(navigation_stack, <<GraphList(view.db), selected_graph_index>>)
       /\ (JustJumped /\ CollectionListBackspace /\ ~FailedLoad(fetches'))
           => LET top == navigation_stack[Len(navigation_stack)]
              IN  /\ navigation_stack' \o <<top>> = navigation_stack
                  /\ view' = top[1]
                  /\ selected_graph_index' = top[2]
                  /\ fetches' = GraphCalls(top[1].db, [ok |-> TRUE, graphs |-> graphs'])]_vars

\* C11's case: back in GraphList("a") on row 2, from which the jump was
\* made, over the graphs a new get_graphs returned.
C11_Witness ==
    /\ event = [arm |-> "CollectionList", key |-> "Backspace"]
    /\ view = GraphList("a")
    /\ selected_graph_index = 2
    /\ Len(graphs) = 2
    /\ navigation_stack = <<>>
    /\ fetches = GraphCalls("a", [ok |-> TRUE, graphs |-> graphs])

\* The event is Backspace pressed in CollectionList over an empty stack.
BackOnEmptyStack ==
    /\ CollectionListBackspace
    /\ Pressed("CollectionList", "Backspace")
    /\ navigation_stack = <<>>

\* C12 as stated: Backspace in CollectionList with an empty navigation
\* stack makes DatabaseList the view.
C12_BackOnEmptyStackCloses ==
    [][BackOnEmptyStack => view' = DatabaseList]_vars

\* C12 as amended: Backspace in CollectionList with an empty navigation
\* stack changes nothing and fetches nothing, so the view stays
\* CollectionList; CollectionList is left for DatabaseList by 'q' | Esc, and
\* by no other key.
C12_BackOnEmptyStackStays ==
    [][/\ BackOnEmptyStack => UNCHANGED <<browser, session>> /\ fetches' = <<>>
       /\ CollectionListQuit => view' = DatabaseList
       /\ (view.tag = "CollectionList" /\ view' = DatabaseList)
           => event' = [arm |-> "CollectionList", key |-> "Esc"]]_vars

\* C12's case: Backspace was pressed in CollectionList over an empty stack,
\* and the collections are still shown.
C12_Witness ==
    /\ event = [arm |-> "CollectionList", key |-> "Backspace"]
    /\ session = "running"
    /\ view = CollectionList("a")
    /\ collections # <<>>
    /\ navigation_stack = <<>>
    /\ fetches = <<>>

\* The event is Enter pressed in DatabaseList with the cursor on a database.
DatabaseActivated ==
    /\ DatabaseListEnter
    /\ Pressed("DatabaseList", "Enter")
    /\ selected_db_index < Len(database_stats)

\* C13: Enter in DatabaseList on a database marked inaccessible changes
\* nothing and fetches nothing; on an accessible database it fetches the
\* collections of that database and, when the fetch succeeds, shows them in
\* CollectionList of that database with the cursor on row 0.
C13_ActivateDatabase ==
    [][DatabaseActivated
         => LET db == database_stats[selected_db_index + 1]
            IN  IF ~db.accessible
                THEN UNCHANGED <<browser, session>> /\ fetches' = <<>>
                ELSE /\ fetches' # <<>>
                     /\ fetches'[1].op = "get_collections"
                     /\ fetches'[1].db = db.name
                     /\ ~FailedLoad(fetches')
                          => /\ view' = CollectionList(db.name)
                             /\ selected_coll_index' = 0
                             /\ CollectionsFetched(fetches', db.name, collections')]_vars

\* C13's case (scenario A): Enter was pressed on the inaccessible database,
\* and the cursor is still on it in DatabaseList.
C13_Witness ==
    /\ event = [arm |-> "DatabaseList", key |-> "Enter"]
    /\ view = DatabaseList
    /\ selected_db_index = 2
    /\ database_stats[3] = [name |-> "c", accessible |-> FALSE]
    /\ fetches = <<>>
    /\ session = "running"

\* C14: when get_databases fails, load_databases makes `accessible` false
\* and returns Ok: the session runs, in DatabaseList, over an empty list of
\* databases; and no event of the session changes `accessible`.
C14_InaccessibleSticks ==
    [][/\ (LoadDatabases /\ ~fetches'[1].ok)
           => /\ ~accessible'
              /\ view' = DatabaseList
              /\ database_stats' = <<>>
              /\ session' = "running"
       /\ session # "new" => UNCHANGED accessible]_vars

\* C14's case: get_databases failed, and a key has been pressed since.
C14_Witness ==
    /\ ~accessible
    /\ session = "running"
    /\ view = DatabaseList
    /\ database_stats = <<>>
    /\ event = [arm |-> "DatabaseList", key |-> "Enter"]

\* The edge definitions of the first n graphs of gs, counted.
RECURSIVE EdgeCount(_, _)
EdgeCount(gs, n) ==
    IF n = 0 THEN 0 ELSE Len(gs[n].edge_definitions) + EdgeCount(gs, n - 1)

\* The cursor values below the total that the indexer takes for a graph
\* row, for an edge-definition row, and for no item (a spacer).
HeaderCursors(gs) ==
    {i \in 0..(TotalRows(gs) - 1) :
        /\ FindSelectedGraphItem(gs, i) # None
        /\ FindSelectedGraphItem(gs, i)[1].edge_idx = None}

EdgeCursors(gs) ==
    {i \in 0..(TotalRows(gs) - 1) :
        /\ FindSelectedGraphItem(gs, i) # None
        /\ FindSelectedGraphItem(gs, i)[1].edge_idx # None}

SpacerCursors(gs) ==
    {i \in 0..(TotalRows(gs) - 1) : FindSelectedGraphItem(gs, i) = None}

\* The item is a graph of gs, or an edge definition of a graph of gs.
ItemInRange(gs, item) ==
    /\ item.graph_idx \in 0..(Len(gs) - 1)
    /\ item.edge_idx # None
         => item.edge_idx[1] \in 0..(Len(gs[item.graph_idx + 1].edge_definitions) - 1)

\* C15: for a non-empty list of G graphs the total of the cursor keys is the
\* sum of (1 + E_i) plus G - 1; of the cursor values below it the indexer
\* takes G for graph rows, as many as there are edge definitions for edge
\* rows and G - 1 for spacers, and every item it returns is in range; the
\* cursor is below the total.
C15_IndexTotality ==
    (view.tag = "GraphList" /\ graphs # <<>>)
        => LET G == Len(graphs)
               E == EdgeCount(graphs, Len(graphs))
           IN  /\ TotalRows(graphs) = (G + E) + (G - 1)
               /\ Cardinality(HeaderCursors(graphs)) = G
               /\ Cardinality(EdgeCursors(graphs)) = E
               /\ Cardinality(SpacerCursors(graphs)) = G - 1
               /\ \A i \in HeaderCursors(graphs) \cup EdgeCursors(graphs) :
                    ItemInRange(graphs, FindSelectedGraphItem(graphs, i)[1])
               /\ selected_graph_index < TotalRows(graphs)

\* C15's case: three graphs of two edge definitions, 11 rows, and the
\* cursor on the last row, the second edge definition of the third graph.
C15_Witness ==
    /\ view.tag = "GraphList"
    /\ Len(graphs) = 3
    /\ TotalRows(graphs) = 11
    /\ selected_graph_index = 10
    /\ FindSelectedGraphItem(graphs, selected_graph_index)
         = Some([graph_idx |-> 2, edge_idx |-> Some(1)])

\* The row of the header of graph g (from 0): every graph before it takes
\* its header, its edge definitions and a spacer.
RECURSIVE StartRow(_, _)
StartRow(gs, g) ==
    IF g = 0 THEN 0
    ELSE StartRow(gs, g - 1) + 1 + Len(gs[g].edge_definitions) + 1

\* C16: the rows are the graphs in order, each its header, then its edge
\* definitions in order, then one spacer unless it is the last graph; the
\* indexer maps the header of graph g to (g, None), its k-th edge row to
\* (g, Some(k)), a spacer to None, and the rows end with the last graph.
C16_ConstructionRule ==
    (view.tag = "GraphList" /\ graphs # <<>>)
        => \A g \in 0..(Len(graphs) - 1) :
             LET start == StartRow(graphs, g)
                 n == Len(graphs[g + 1].edge_definitions)
             IN  /\ FindSelectedGraphItem(graphs, start)
                      = Some([graph_idx |-> g, edge_idx |-> None])
                 /\ \A k \in 0..(n - 1) :
                      FindSelectedGraphItem(graphs, start + 1 + k)
                          = Some([graph_idx |-> g, edge_idx |-> Some(k)])
                 /\ IF g < Len(graphs) - 1
                    THEN /\ FindSelectedGraphItem(graphs, start + 1 + n) = None
                         /\ start + 1 + n < TotalRows(graphs)
                    ELSE start + 1 + n = TotalRows(graphs)

\* C16's case (scenario B): g1 with two edge definitions and g2 with none,
\* 5 rows, the cursor on the spacer, row 3, and g2 on row 4.
C16_Witness ==
    /\ view.tag = "GraphList"
    /\ Len(graphs) = 2
    /\ Len(graphs[1].edge_definitions) = 2
    /\ graphs[2].edge_definitions = <<>>
    /\ TotalRows(graphs) = 5
    /\ selected_graph_index = 3
    /\ FindSelectedGraphItem(graphs, selected_graph_index) = None
    /\ FindSelectedGraphItem(graphs, 4) = Some([graph_idx |-> 1, edge_idx |-> None])

\* Where the cursor keys are to take cursor i of n rows.
ExpectedDown(i, n) == IF i = n - 1 THEN 0 ELSE i + 1
ExpectedUp(i, n) == IF i = 0 THEN n - 1 ELSE i - 1

\* Down (Up) in GraphList over a non-empty graph list takes the cursor where
\* it is to go, and from there Up (Down) would take it back.
WrapsAround ==
    /\ GraphListDown
         => /\ selected_graph_index'
                 = ExpectedDown(selected_graph_index, TotalRows(graphs))
            /\ WrapPrev(selected_graph_index', TotalRows(graphs)) = selected_graph_index
    /\ GraphListUp
         => /\ selected_graph_index'
                 = ExpectedUp(selected_graph_index, TotalRows(graphs))
            /\ WrapNext(selected_graph_index', TotalRows(graphs)) = selected_graph_index

\* C17: in GraphList over a non-empty graph list, Down at total - 1 yields 0
\* and otherwise cursor + 1, Up at 0 yields total - 1 and otherwise
\* cursor - 1, and each undoes the other.
C17_Wraparound ==
    [][(view.tag = "GraphList" /\ graphs # <<>>) => WrapsAround]_vars

\* C17 for a cursor that is on a row: the same, when the cursor is below
\* the total.
C17_WraparoundOnARow ==
    [][(/\ view.tag = "GraphList"
        /\ graphs # <<>>
        /\ selected_graph_index < TotalRows(graphs)) => WrapsAround]_vars

\* The event is Enter pressed in GraphList.
ActivatedInGraphList == GraphListEnter /\ Pressed("GraphList", "Enter")

\* C18: Enter in GraphList with the cursor on a spacer row changes nothing
\* (not the view, the graphs, the cursor, the collections, the stack) and
\* fetches nothing.
C18_SpacerIsNoOp ==
    [][(ActivatedInGraphList /\ RowAt(graphs, selected_graph_index).kind = "spacer")
         => UNCHANGED <<browser, session>> /\ fetches' = <<>>]_vars

\* C18's case: Enter was pressed on the spacer between two graphs.
C18_Witness ==
    /\ event = [arm |-> "GraphList", key |-> "Enter"]
    /\ view.tag = "GraphList"
    /\ Len(graphs) = 2
    /\ RowAt(graphs, selected_graph_index).kind = "spacer"
    /\ fetches = <<>>
    /\ session = "running"

\* C19: Enter in GraphList(db) on the header row of a graph fetches nothing,
\* leaves the stack and the graphs as they are, makes that graph the graph
\* detail, the scroll offset 0 and GraphProperties(db, its name) the view.
C19_HeaderOpensProperties ==
    [][(ActivatedInGraphList /\ RowAt(graphs, selected_graph_index).kind = "graph")
         => LET graph == graphs[RowAt(graphs, selected_graph_index).graph + 1]
            IN  /\ fetches' = <<>>
                /\ UNCHANGED <<navigation_stack, graphs>>
                /\ graph_details' = Some(graph)
                /\ scroll_offset' = 0
                /\ view' = GraphProperties(view.db, graph.name)
                /\ session' = session]_vars

\* C19's case: the properties of the second graph, opened from its header
\* on row 4.
C19_Witness ==
    /\ event = [arm |-> "GraphList", key |-> "Enter"]
    /\ view = GraphProperties("a", "g2")
    /\ selected_graph_index = 4
    /\ graph_details = Some(graphs[2])
    /\ scroll_offset = 0
    /\ fetches = <<>>

\* The list of a parent view and its cursor.
parents == <<collections, selected_coll_index, graphs, selected_graph_index>>

\* The event is 'q' | Esc pressed in the detail view `tag`.
Closing(tag) == InView(tag) /\ event' = [arm |-> tag, key |-> "Esc"]

\* C20: 'q' | Esc in a detail view fetches nothing, makes the scroll offset
\* 0, removes the data of the view (the collection detail, the documents,
\* the graph detail) and shows the parent of the same database:
\* CollectionList(db) for CollectionProperties and DocumentViewer,
\* GraphList(db) for GraphProperties; and no event in a detail view changes
\* the lists or the cursors of the parents.
C20_CloseDetail ==
    [][/\ Closing("CollectionProperties")
           => view' = CollectionList(view.db) /\ collection_details' = None
       /\ Closing("DocumentViewer")
           => view' = CollectionList(view.db) /\ documents' = <<>>
       /\ Closing("GraphProperties")
           => view' = GraphList(view.db) /\ graph_details' = None
       /\ (Closing("CollectionProperties") \/ Closing("DocumentViewer")
             \/ Closing("GraphProperties"))
           => scroll_offset' = 0 /\ fetches' = <<>> /\ session' = session
       /\ view.tag \in {"CollectionProperties", "DocumentViewer", "GraphProperties"}
           => UNCHANGED parents]_vars

\* C20's case: DocumentViewer was closed, and CollectionList("b") shows the
\* row that was opened.
C20_Witness ==
    /\ event = [arm |-> "DocumentViewer", key |-> "Esc"]
    /\ view = CollectionList("b")
    /\ Len(collections) = 3
    /\ selected_coll_index = 2
    /\ documents = <<>>
    /\ scroll_offset = 0
    /\ fetches = <<>>

\* What a scroll key leaves alone: everything but the scroll offset; and it
\* fetches nothing.
ScrollFrame ==
    /\ UNCHANGED <<view, loaded, accessible, input_state, session>>
    /\ fetches' = <<>>

\* The scroll offset moves down by n, and up by n but not below 0.
ScrolledDown(n) == scroll_offset' = scroll_offset + n /\ ScrollFrame
ScrolledUp(n) ==
    /\ scroll_offset' = (IF scroll_offset < n THEN 0 ELSE scroll_offset - n)
    /\ ScrollFrame

\* C21: in CollectionProperties, DocumentViewer and GraphProperties, Down
\* and Up move the scroll offset by 1 and PageDown and PageUp by 10, Up and
\* PageUp stopping at 0; they change nothing else and fetch nothing.
C21_ScrollOnly ==
    [][/\ (CollectionPropertiesDown \/ DocumentViewerDown \/ GraphPropertiesDown)
           => ScrolledDown(1)
       /\ (CollectionPropertiesUp \/ DocumentViewerUp \/ GraphPropertiesUp)
           => ScrolledUp(1)
       /\ (CollectionPropertiesPageDown \/ DocumentViewerPageDown
             \/ GraphPropertiesPageDown)
           => ScrolledDown(10)
       /\ (CollectionPropertiesPageUp \/ DocumentViewerPageUp \/ GraphPropertiesPageUp)
           => ScrolledUp(10)]_vars

\* C21's case: the documents scrolled to offset 9, by PageDown and Up or by
\* nine Downs.
C21_Witness ==
    /\ view.tag = "DocumentViewer"
    /\ documents # <<>>
    /\ scroll_offset = 9
    /\ fetches = <<>>
    /\ session = "running"

\* colls has its non-system collections first, and each kind by ascending
\* name.
InListOrder(colls) ==
    \A i, j \in 1..Len(colls) :
        i < j => /\ colls[i].info.is_system => colls[j].info.is_system
                 /\ colls[i].info.is_system = colls[j].info.is_system
                      => ~NameLess(colls[j].info.name, colls[i].info.name)

\* C22: the loaded collection list has the non-system collections first, in
\* ascending order of name, and the system collections behind them, in
\* ascending order of name, in whatever order get_collections listed them.
C22_CollectionsSorted == InListOrder(collections)

\* C22's case: the server listed "_graphs", "user", "_apps", "likes", and
\* the list loaded is "likes", "user", "_apps", "_graphs".
C22_Witness ==
    /\ view.tag = "CollectionList"
    /\ Len(fetches) = 5
    /\ [i \in 1..4 |-> fetches[i + 1].coll] = <<"_graphs", "user", "_apps", "likes">>
    /\ [i \in 1..Len(collections) |-> collections[i].info.name]
         = <<"likes", "user", "_apps", "_graphs">>

\* C23: the collection detail is present only in CollectionProperties, the
\* document sample is non-empty only in DocumentViewer, and the graph
\* detail is present exactly in GraphProperties.
C23_DetailOnlyInItsView ==
    /\ collection_details # None => view.tag = "CollectionProperties"
    /\ documents # <<>> => view.tag = "DocumentViewer"
    /\ graph_details # None <=> view.tag = "GraphProperties"

\* C23's case: GraphProperties has just been closed, after a graph detail
\* was shown, and no detail is left.
C23_Witness ==
    /\ event = [arm |-> "GraphProperties", key |-> "Esc"]
    /\ view.tag = "GraphList"
    /\ graphs # <<>>
    /\ graph_details = None
    /\ collection_details = None
    /\ documents = <<>>

\* C24: the navigation stack gets longer only by Enter or 'v' in GraphList
\* on an edge-definition row, which put the view and the cursor on it; it
\* gets shorter only by Backspace in CollectionList, which takes its last
\* entry off; every other event, in every view and in the modal, leaves it
\* as it is.
C24_StackFrame ==
    [][/\ Len(navigation_stack') > Len(navigation_stack)
           => /\ event' \in {[arm |-> "GraphList", key |-> "Enter"],
                             [arm |-> "GraphList", key |-> "v"]}
              /\ view.tag = "GraphList"
              /\ RowAt(graphs, selected_graph_index).kind = "edge"
              /\ navigation_stack'
                   = Append(navigation_stack, <<view, selected_graph_index>>)
       /\ Len(navigation_stack') < Len(navigation_stack)
           => /\ event' = [arm |-> "CollectionList", key |-> "Backspace"]
              /\ view.tag = "CollectionList"
              /\ navigation_stack'
                   = SubSeq(navigation_stack, 1, Len(navigation_stack) - 1)
       /\ Len(navigation_stack') = Len(navigation_stack)
           => navigation_stack' = navigation_stack]_vars

\* C24's case: CollectionList was closed to DatabaseList after a jump, and
\* the entry of the jump is still on the stack.
C24_Witness ==
    /\ event = [arm |-> "CollectionList", key |-> "Esc"]
    /\ view = DatabaseList
    /\ Len(navigation_stack) = 1
    /\ navigation_stack[1][1].tag = "GraphList"

\* The key events that call load_collections.
LoadsCollections ==
    {[arm |-> "DatabaseList", key |-> "Enter"], [arm |-> "GraphList", key |-> "Enter"],
     [arm |-> "GraphList", key |-> "v"]}

\* C26 as stated: a key event makes at most one remote call.
C26_AtMostOneCall ==
    [][session = "running" => Len(fetches') <= 1]_vars

\* C26 as amended: a key event makes at most one remote call, but for Enter
\* on a database and the jumps from an edge-definition row, which call
\* load_collections: one get_collections and, when it succeeds, one
\* get_collection_count for each collection it listed, all of the same
\* database.
C26_OneCallOrOneListing ==
    [][session = "running"
         => \/ Len(fetches') <= 1
            \/ /\ event' \in LoadsCollections
               /\ fetches'[1].op = "get_collections"
               /\ fetches'[1].ok
               /\ \A i \in 2..Len(fetches') :
                     /\ fetches'[i].op = "get_collection_count"
                     /\ fetches'[i].db = fetches'[1].db
               /\ Len(fetches') = 1 + Len(collections')
               /\ {fetches'[i].coll : i \in 2..Len(fetches')}
                    = {collections'[i].info.name : i \in 1..Len(collections')}]_vars

\* C26's case: Enter on database "a" made four calls, one get_collections
\* and the counts of the three collections it listed.
C26_Witness ==
    /\ event = [arm |-> "DatabaseList", key |-> "Enter"]
    /\ view = CollectionList("a")
    /\ Len(collections) = 3
    /\ Len(fetches) = 4

\* The controller re-enters DatabaseList from a list view.
Reentered == view.tag \in {"CollectionList", "GraphList"} /\ view' = DatabaseList

\* C27 as stated: re-entering DatabaseList from CollectionList or GraphList
\* calls get_databases again.
C27_ReentryRefetches ==
    [][Reentered => fetches' # <<>> /\ fetches'[1].op = "get_databases"]_vars

\* C27 as amended: re-entering DatabaseList from CollectionList or GraphList
\* fetches nothing and shows the database list and the cursor as they were;
\* the database list is loaded once, when the session starts, and no key
\* replaces it.
C27_ReentryKeepsSummaries ==
    [][/\ Reentered
           => /\ fetches' = <<>>
              /\ UNCHANGED <<database_stats, selected_db_index, accessible>>
       /\ database_stats' # database_stats => session = "new"]_vars

\* C27's case: GraphList was closed to DatabaseList, nothing was fetched and
\* the databases loaded at the start are shown.
C27_Witness ==
    /\ event = [arm |-> "GraphList", key |-> "Esc"]
    /\ view = DatabaseList
    /\ Len(database_stats) = 3
    /\ selected_db_index = 1
    /\ fetches = <<>>

\* C28: the sample-documents command, the only event that opens the modal,
\* opens it over CollectionList and changes nothing else (not the view, the
\* collections, the cursor, the documents, the scroll offset, the stack),
\* and nothing is fetched while the modal is open, until Enter confirms it.
C28_SpaceOnlyOpensModal ==
    [][/\ CollectionListSpace => input_state' # None
       /\ (input_state = None /\ input_state' # None)
           => /\ view.tag = "CollectionList"
              /\ UNCHANGED <<view, loaded, scroll_offset, accessible, session>>
              /\ fetches' = <<>>
       /\ (input_state # None /\ fetches' # <<>>)
           => event' = [arm |-> "InputDialog", key |-> "Enter"]]_vars

\* C28's case: the modal has just been opened over CollectionList, with the
\* cursor on the second collection and an entry on the stack.
C28_Witness ==
    /\ input_state = Some(<<"1", "0">>)
    /\ dialog # None
    /\ dialog[1].typed = Some(<<>>)
    /\ view.tag = "CollectionList"
    /\ selected_coll_index = 1
    /\ navigation_stack # <<>>
    /\ fetches = <<>>

\* C29: in a view of a database, every entry of the navigation stack is a
\* view of that database.
C29_StackOfCurrentDatabase ==
    view.tag # "DatabaseList"
        => \A i \in 1..Len(navigation_stack) : navigation_stack[i][1].db = view.db

\* C30: in CollectionList(db), CollectionProperties(db, c) and
\* DocumentViewer(db, c) the collections loaded are those of the last
\* load_collections that returned Ok, and it was load_collections(db).
C30_CollectionsOfViewDatabase ==
    view.tag \in {"CollectionList", "CollectionProperties", "DocumentViewer"}
        => listed_db = view.db

\* C25: the events are processed one at a time: at most one call is in
\* flight, while a call is in flight no key is read (the keys pressed
\* wait, and the event being processed stays the same), and the view
\* changes only in a step that leaves no call in flight, the step in which
\* the last call of the event has returned.
C25_OneAtATime ==
    [][/\ Cardinality(in_flight') <= 1
       /\ in_flight # {} => pending' >= pending /\ event' = event
       /\ view' # view => in_flight' = {}]_vars

\* C25's case: Enter on a database waits for the count of the second
\* collection, a key waits in the terminal, and the view is still
\* DatabaseList.
C25_Witness ==
    /\ event = [arm |-> "DatabaseList", key |-> "Enter"]
    /\ task.at = "load_collections"
    /\ task.k = 1
    /\ Cardinality(in_flight) = 1
    /\ pending > 0
    /\ view = DatabaseList
    /\ Len(fetches) = 2

\* The view shows the loaded graphs.
ShowsGraphs(v) == v.tag \in {"GraphList", "GraphProperties"}

\* The graphs of gs named g.
GraphsNamed(gs, g) == {gs[i] : i \in {j \in 1..Len(gs) : gs[j].name = g}}

\* C31: the graphs loaded in GraphList(db) and GraphProperties(db, g) were
\* fetched from db: a step that ends in such a view either fetched the
\* graphs it shows with get_graphs(db), or started in such a view of the
\* same db and kept the graphs; and in GraphProperties(db, g) the graph
\* detail is one of the loaded graphs named g.
C31_GraphsOfViewDatabase ==
    [][/\ ShowsGraphs(view')
           => \/ fetches' = GraphCalls(view'.db, [ok |-> TRUE, graphs |-> graphs'])
              \/ /\ ShowsGraphs(view)
                 /\ view'.db = view.db
                 /\ graphs' = graphs
       /\ view'.tag = "GraphProperties"
           => /\ graph_details' # None
              /\ graph_details'[1] \in GraphsNamed(graphs', view'.name)]_vars

\* C31's case: Backspace restored GraphList("a") from CollectionList("b"),
\* over the graphs its load_graphs("a") returned.
C31_Witness ==
    /\ event = [arm |-> "CollectionList", key |-> "Backspace"]
    /\ view = GraphList("a")
    /\ listed_db = "b"
    /\ graphs # <<>>
    /\ fetches = GraphCalls("a", [ok |-> TRUE, graphs |-> graphs])

\* The event is Enter pressed in the modal.
Confirmed == input_state # None /\ event' = [arm |-> "InputDialog", key |-> "Enter"]

\* C32: Enter in the modal, opened with a collection under the cursor,
\* requests that collection's documents from the database of the
\* CollectionList view, by one query; when the query succeeds the view is
\* DocumentViewer of that database and collection, the scroll offset is 0
\* and the modal is closed.
C32_SampleOfOpenedCollection ==
    [][Confirmed
         => LET d == dialog[1].opened_from
            IN  IF d.selected_coll_index < Len(d.collections)
                THEN LET coll == d.collections[d.selected_coll_index + 1].info.name
                     IN  /\ view.tag = "CollectionList"
                         /\ Len(fetches') = 1
                         /\ fetches'[1].op = "execute_aql_query"
                         /\ fetches'[1].db = view.db
                         /\ fetches'[1].coll = coll
                         /\ fetches'[1].ok
                              => /\ view' = DocumentViewer(view.db, coll)
                                 /\ scroll_offset' = 0
                                 /\ input_state' = None
                ELSE fetches' = <<>>]_vars

\* C32's case: the modal was opened on the second collection and confirmed,
\* and DocumentViewer shows the documents of that collection.
C32_Witness ==
    /\ event = [arm |-> "InputDialog", key |-> "Enter"]
    /\ view.tag = "DocumentViewer"
    /\ selected_coll_index = 1
    /\ Len(collections) >= 2
    /\ view.name = collections[2].info.name
    /\ documents # <<>>
    /\ scroll_offset = 0

\* C33: the modal is active only in CollectionList.
C33_ModalOnlyInCollectionList ==
    input_state # None => view.tag = "CollectionList"

\* C33's case: the modal is open over CollectionList with a full buffer.
C33_Witness ==
    /\ input_state # None
    /\ Len(input_state[1]) = MaxInput
    /\ view.tag = "CollectionList"

\* C34: Enter in the modal over an empty collection list closes the modal,
\* fetches nothing and changes nothing else: the view stays CollectionList.
C34_ConfirmOnEmptyList ==
    [][(Confirmed /\ collections = <<>>)
         => /\ input_state' = None
            /\ fetches' = <<>>
            /\ view.tag = "CollectionList"
            /\ UNCHANGED <<view, loaded, scroll_offset, accessible, session>>]_vars

\* C34's case: the modal was confirmed over the empty collection list of a
\* database.
C34_Witness ==
    /\ event = [arm |-> "InputDialog", key |-> "Enter"]
    /\ dialog # None
    /\ dialog[1].closed = "Enter"
    /\ collections = <<>>
    /\ view.tag = "CollectionList"
    /\ input_state = None
    /\ fetches = <<>>
    /\ session = "running"

\* C35: every entry of the navigation stack is a GraphList view; an entry
\* is pushed as the GraphList left and its cursor; and an entry is popped
\* only with a get_graphs of its database, whose graphs are shown when the
\* view changes.
C35_StackOfGraphLists ==
    [][/\ \A i \in 1..Len(navigation_stack') : navigation_stack'[i][1].tag = "GraphList"
       /\ Len(navigation_stack') > Len(navigation_stack)
           => /\ view.tag = "GraphList"
              /\ navigation_stack'[Len(navigation_stack')] = <<view, selected_graph_index>>
       /\ Len(navigation_stack') < Len(navigation_stack)
           => LET top == navigation_stack[Len(navigation_stack)]
              IN  /\ Len(fetches') = 1
                  /\ fetches'[1].op = "get_graphs"
                  /\ fetches'[1].db = top[1].db
                  /\ view' # view => view' = top[1] /\ graphs' = fetches'[1].graphs]_vars

\* C35's case: the vertex jump from row 2 of GraphList("a") has put the
\* view and the cursor on the stack.
C35_Witness ==
    /\ event = [arm |-> "GraphList", key |-> "v"]
    /\ view = CollectionList("a")
    /\ navigation_stack = <<<<GraphList("a"), 1>>>>

\* The tags of the list views; the other views are the detail views.
ListViews == {"DatabaseList", "CollectionList", "GraphList"}

\* C36: the scroll offset is 0 in DatabaseList, CollectionList and
\* GraphList, and it is 0 after a step that enters a detail view.
C36_ScrollZero ==
    [][/\ view'.tag \in ListViews => scroll_offset' = 0
       /\ (view'.tag \notin ListViews /\ view' # view) => scroll_offset' = 0]_vars

\* C36's case: DocumentViewer, which scrolls, was closed, and the
\* collection list is at offset 0.
C36_Witness ==
    /\ event = [arm |-> "DocumentViewer", key |-> "Esc"]
    /\ view.tag = "CollectionList"
    /\ scroll_offset = 0

\* The renderer giving the selected style to whatever row is at the cursor.
HighlightedWithSpacers(gs, cursor) ==
    {Rows(gs)[p] : p \in {q \in 1..Len(Rows(gs)) : q - 1 = cursor}}

\* render_graph_list: the rows it gives the selected style
\* (`current_row_index == browser.selected_graph_index`), which the rows
\* between two graphs never get.
Highlighted(gs, cursor) ==
    {Rows(gs)[p] : p \in {q \in 1..Len(Rows(gs)) :
                            q - 1 = cursor /\ Rows(gs)[q].kind # "spacer"}}

\* The row of an item of find_selected_graph_item.
ItemRow(item) ==
    [kind |-> IF item.edge_idx = None THEN "graph" ELSE "edge",
     graph |-> item.graph_idx,
     edge |-> IF item.edge_idx = None THEN 0 ELSE item.edge_idx[1]]

\* C38: for every non-empty graph list and every cursor, on a row or past
\* the last, the renderer highlights the header of graph g when the indexer
\* returns (g, None), the k-th edge row of g when it returns (g, Some(k)),
\* and no row when it returns None; and it highlights nothing else.
C38_RendererAgrees ==
    (view.tag = "GraphList" /\ graphs # <<>>)
        => \A c \in 0..(Len(Rows(graphs)) + 1) :
             LET item == FindSelectedGraphItem(graphs, c)
             IN  Highlighted(graphs, c)
                   = IF item = None THEN {} ELSE {ItemRow(item[1])}

\* C38's case: three graphs, the cursor on the spacer after the second,
\* which the renderer does not highlight and the indexer does not return.
C38_Witness ==
    /\ view.tag = "GraphList"
    /\ Len(graphs) = 3
    /\ RowAt(graphs, selected_graph_index) = [kind |-> "spacer", graph |-> 1, edge |-> 0]
    /\ Highlighted(graphs, selected_graph_index) = {}
    /\ FindSelectedGraphItem(graphs, selected_graph_index) = None

\* The collection of colls named `name`.
Named(colls, name) == CHOOSE c \in {colls[i] : i \in 1..Len(colls)} : c.info.name = name

\* C39: in load_collections a get_collection_count that fails does not
\* fail the load: when get_collections succeeds the event ends in
\* CollectionList with every collection that was counted, the count of a
\* collection absent exactly when its get_collection_count failed; when
\* get_collections fails, the load fails after that one call and the
\* collections stay as they were.
C39_CountFailureTolerated ==
    [][(session = "running" /\ fetches' # <<>> /\ fetches'[1].op = "get_collections")
         => IF fetches'[1].ok
            THEN /\ session' = "running"
                 /\ view' = CollectionList(fetches'[1].db)
                 /\ Len(collections') = Len(fetches') - 1
                 /\ \A i \in 2..Len(fetches') :
                       /\ \E j \in 1..Len(collections') :
                             collections'[j].info.name = fetches'[i].coll
                       /\ Named(collections', fetches'[i].coll).count = None
                            <=> ~fetches'[i].ok
            ELSE /\ session' = "failed"
                 /\ Len(fetches') = 1
                 /\ UNCHANGED <<view, collections>>]_vars

\* C39's case: Enter on a database listed two collections, the count of
\* "user" failed, and CollectionList shows both, "user" without a count.
C39_Witness ==
    /\ event = [arm |-> "DatabaseList", key |-> "Enter"]
    /\ session = "running"
    /\ view.tag = "CollectionList"
    /\ Len(fetches) = 3
    /\ \E i \in 2..3 : fetches[i].coll = "user" /\ ~fetches[i].ok
    /\ Len(collections) = 2
    /\ Named(collections, "user").count = None
    /\ Named(collections, "likes").count # None

\* Esc is pressed: the 'q' | Esc arm of the view, or the Esc arm of the
\* modal when it is open.
EscKey ==
    \/ DatabaseListQuit /\ Pressed("DatabaseList", "Esc")
    \/ CollectionListQuit /\ Pressed("CollectionList", "Esc")
    \/ GraphListQuit /\ Pressed("GraphList", "Esc")
    \/ CollectionPropertiesClose /\ Pressed("CollectionProperties", "Esc")
    \/ DocumentViewerClose /\ Pressed("DocumentViewer", "Esc")
    \/ GraphPropertiesClose /\ Pressed("GraphProperties", "Esc")
    \/ ModalEsc /\ Pressed("InputDialog", "Esc")

\* The presses of Esc it takes to end the session: one to close the modal,
\* one to leave a detail view, one to leave a list view of a database, one
\* to leave DatabaseList.
EscapesLeft ==
    IF session = "quit" THEN 0
    ELSE (IF input_state # None THEN 1 ELSE 0)
         + (CASE view.tag = "DatabaseList" -> 1
              [] view.tag \in {"CollectionList", "GraphList"} -> 2
              [] OTHER -> 3)

\* C37: in every state of a running session, whatever the view, the modal
\* and the stack, Esc can be pressed, at most three presses of Esc are
\* left to the end of the session, and every press of Esc fetches nothing
\* and leaves one press less.
C37_ThreeEscapesQuit ==
    /\ [](session = "running" => EscapesLeft \in 1..3 /\ ENABLED EscKey)
    /\ [][(session = "running" /\ event'.key = "Esc")
            => /\ fetches' = <<>>
               /\ EscapesLeft' = EscapesLeft - 1]_vars

\* C37's case: three presses of Esc away from the end, the modal open over
\* CollectionList with an entry on the stack.
C37_Witness ==
    /\ session = "running"
    /\ input_state # None
    /\ view.tag = "CollectionList"
    /\ navigation_stack # <<>>
    /\ EscapesLeft = 3

====
